---- MODULE Spec2Model ----
(***************************************************************************)
(* glue-v8: the attribute macro of lib.rs, which turns a Rust function     *)
(* signature into a V8 callback wrapper (slow path), and the generator     *)
(* modules beside it (parse.rs, codegen.rs, types.rs, fast.rs), of which   *)
(* fast.rs builds the V8 Fast API pair for an eligible signature.  The     *)
(* generators are modelled as operators that build the emitted code as     *)
(* data; the engine calling the emitted code is modelled as a state        *)
(* machine that interprets that data step by step.                         *)
(***************************************************************************)
EXTENDS Integers, Sequences, FiniteSets, TLC

\* Largest number of ordinary (non-scope, non-state) parameters of a signature.
MaxParams == 2

(***************************************************************************)
(* syn::Type.  A path type keeps its segment idents and the generic        *)
(* arguments of its last segment; a tuple keeps its elements in args; a    *)
(* reference, shared or mutable, keeps its referent in args.               *)
(***************************************************************************)
Path(segs, args) == [k |-> "path", segs |-> segs, args |-> args]
Simple(name) == Path(<<name>>, <<>>)
UnitType == [k |-> "tuple", segs |-> <<>>, args |-> <<>>]
Ref(ty) == [k |-> "ref", segs |-> <<>>, args |-> <<ty>>]
RefMut(ty) == [k |-> "ref_mut", segs |-> <<>>, args |-> <<ty>>]
OptionOf(ty) == Path(<<"Option">>, <<ty>>)
LocalOf(name) == Path(<<"v8", "Local">>, <<Path(<<"v8", name>>, <<>>)>>)
BareLocalOf(name) == Path(<<"Local">>, <<Simple(name)>>)
ResultOf(ok, err) == Path(<<"Result">>, <<ok, err>>)
RcOf(ty) == Path(<<"Rc">>, <<ty>>)

Last(s) == s[Len(s)]

\* quote!(#ty).to_string(): the tokens of a type, in order.
RECURSIVE JoinSegs(_)
JoinSegs(segs) ==
    IF Len(segs) = 0 THEN <<>>
    ELSE IF Len(segs) = 1 THEN <<segs[1]>>
    ELSE <<segs[1], "::">> \o JoinSegs(Tail(segs))

RECURSIVE TypeStr(_)
RECURSIVE TypeListStr(_)
TypeListStr(tys) ==
    IF Len(tys) = 0 THEN <<>>
    ELSE IF Len(tys) = 1 THEN TypeStr(tys[1])
    ELSE TypeStr(tys[1]) \o <<",">> \o TypeListStr(Tail(tys))

TypeStr(ty) ==
    CASE ty.k = "path" ->
           JoinSegs(ty.segs)
           \o (IF Len(ty.args) = 0 THEN <<>>
               ELSE <<"<">> \o TypeListStr(ty.args) \o <<">">>)
      [] ty.k = "tuple" ->
           <<"(">> \o TypeListStr(ty.args)
           \o (IF Len(ty.args) = 1 THEN <<",">> ELSE <<>>) \o <<")">>
      [] ty.k = "ref_mut" -> <<"&", "mut">> \o TypeListStr(ty.args)
      [] OTHER -> <<"&">> \o TypeListStr(ty.args)

\* format!("{}", idx) for the argument indices the model uses.
IdxStr(i) == <<"0", "1", "2", "3", "4", "5">>[i + 1]

(***************************************************************************)
(* types.rs: type detection.  An Option<X> result is a sequence of length  *)
(* 0 (None) or 1 (Some).                                                   *)
(***************************************************************************)
get_v8_local_inner_type(ty) ==
    IF ty.k # "path" THEN <<>>
    ELSE IF ~(\/ (Len(ty.segs) = 2 /\ ty.segs[1] = "v8" /\ ty.segs[2] = "Local")
              \/ (Len(ty.segs) = 1 /\ ty.segs[1] = "Local"))
         THEN <<>>
    ELSE IF Len(ty.args) = 0 THEN <<>>
    ELSE IF ty.args[1].k # "path" \/ Len(ty.args[1].segs) = 0 THEN <<>>
    ELSE <<Last(ty.args[1].segs)>>

is_result_type(ty) ==
    ty.k = "path" /\ Len(ty.segs) > 0 /\ Last(ty.segs) = "Result"

get_option_inner_type(ty) ==
    IF ty.k = "path" /\ Len(ty.segs) > 0 /\ Last(ty.segs) = "Option"
       /\ Len(ty.args) > 0
    THEN <<ty.args[1]>>
    ELSE <<>>

get_rc_inner_type(ty) ==
    IF ty.k = "path" /\ Len(ty.segs) > 0 /\ Last(ty.segs) = "Rc"
       /\ Len(ty.args) > 0
    THEN <<ty.args[1]>>
    ELSE <<>>

(***************************************************************************)
(* The emitted argument extraction of one parameter, as data:              *)
(*   form  "option"   Option<T>: None on undefined/null, else serde        *)
(*         "checked"  v8::Local<K> with a runtime predicate                *)
(*         "value"    v8::Local<v8::Value>, no check                       *)
(*         "try_into" any other v8::Local<X>, generic conversion           *)
(*         "serde"    every other type, serde_v8 deserialization           *)
(*   target the Rust type the value is converted to (tokens)               *)
(*   msg    the error message, or its prefix when the underlying error is  *)
(*          appended at run time (appends = TRUE)                          *)
(***************************************************************************)
Extraction(form, name, idx, target, check, msg, appends) ==
    [form |-> form, name |-> name, idx |-> idx, target |-> target,
     check |-> check, msg |-> msg, appends |-> appends]

\* A checked extraction with the message of the generic conversion.
v8_local_extraction_expected(name, idx, v8_type, check_method) ==
    Extraction("checked", name, idx, <<"v8", "::", "Local", "<", "v8", "::", v8_type, ">">>,
               check_method,
               <<"argument ", IdxStr(idx), ": expected ", v8_type>>, FALSE)

v8_local_extraction(name, idx, v8_type, check_method) ==
    Extraction("checked", name, idx, <<"v8", "::", "Local", "<", "v8", "::", v8_type, ">">>,
               check_method,
               <<"argument ", IdxStr(idx), " must be a ", v8_type>>, FALSE)

(***************************************************************************)
(* codegen.rs: generate_arg_extractions.  params is the sequence of        *)
(* [name, ty] left after the scope and state parameters are removed; the   *)
(* i-th of them (from 0) reads args.get(i).                                *)
(***************************************************************************)
\* The Option<T> branch with the declared type, not T, in the message.
option_extraction_names_declared(name, idx, ty, inner_ty) ==
    Extraction("option", name, idx, TypeStr(inner_ty), "",
               <<"argument ", IdxStr(idx), ": expected ">> \o TypeStr(ty),
               TRUE)

\* The Option<T> branch: the value is converted to T and the error names T.
option_extraction(name, idx, ty, inner_ty) ==
    Extraction("option", name, idx, TypeStr(inner_ty), "",
               <<"argument ", IdxStr(idx), ": expected ">> \o TypeStr(inner_ty),
               TRUE)

arg_extraction(i, name, ty) ==
    LET idx == i
        opt == get_option_inner_type(ty)
        loc == get_v8_local_inner_type(ty)
    IN  IF Len(opt) > 0 THEN option_extraction(name, idx, ty, opt[1])
        ELSE IF Len(loc) > 0 THEN
            CASE loc[1] = "Function" -> v8_local_extraction(name, idx, "Function", "is_function")
              [] loc[1] = "Object" -> v8_local_extraction(name, idx, "Object", "is_object")
              [] loc[1] = "Array" -> v8_local_extraction(name, idx, "Array", "is_array")
              [] loc[1] = "Uint8Array" -> v8_local_extraction(name, idx, "Uint8Array", "is_uint8_array")
              [] loc[1] = "ArrayBuffer" -> v8_local_extraction(name, idx, "ArrayBuffer", "is_array_buffer")
              [] loc[1] = "String" -> v8_local_extraction(name, idx, "String", "is_string")
              [] loc[1] = "Number" -> v8_local_extraction(name, idx, "Number", "is_number")
              [] loc[1] = "Value" ->
                   Extraction("value", name, idx,
                              <<"v8", "::", "Local", "<", "v8", "::", "Value", ">">>,
                              "", <<>>, FALSE)
              [] OTHER ->
                   Extraction("try_into", name, idx, TypeStr(ty), "",
                              <<"argument ", IdxStr(idx), ": expected ">> \o TypeStr(ty),
                              FALSE)
        ELSE
            Extraction("serde", name, idx, TypeStr(ty), "",
                       <<"argument ", IdxStr(idx), ": expected ">> \o TypeStr(ty),
                       TRUE)

\* A generator that counts the arguments from one.
generate_arg_extractions_from_one(params) ==
    [i \in 1..Len(params) |-> arg_extraction(i, params[i].name, params[i].ty)]

generate_arg_extractions(params) ==
    [i \in 1..Len(params) |-> arg_extraction(i - 1, params[i].name, params[i].ty)]

(***************************************************************************)
(* codegen.rs: generate_state_extraction.  The emitted statement reads the *)
(* context slot of the Rc's inner type (or of the type itself) and throws  *)
(* a generic error when the slot is empty; a state parameter without a     *)
(* declared state type emits compile_error!.                               *)
(***************************************************************************)
StateExtraction(form, slot_ty, msg) ==
    [form |-> form, slot_ty |-> slot_ty, msg |-> msg]

\* A generator that emits the slot lookup also when no state type is declared.
generate_state_extraction_always_slot(has_state, state_type) ==
    IF ~has_state THEN StateExtraction("none", <<>>, <<>>)
    ELSE StateExtraction("slot", <<"_">>,
                         <<"internal error: state not found for ", "_">>)

generate_state_extraction(has_state, state_type) ==
    IF ~has_state THEN StateExtraction("none", <<>>, <<>>)
    ELSE IF Len(state_type) > 0 THEN
        LET state_ty == state_type[1]
            inner == get_rc_inner_type(state_ty)
            msg == <<"internal error: state not found for ">> \o TypeStr(state_ty)
        IN  IF Len(inner) > 0
            THEN StateExtraction("slot", TypeStr(inner[1]), msg)
            ELSE StateExtraction("slot", TypeStr(state_ty), msg)
    ELSE StateExtraction("compile_error", <<>>, <<>>)

(***************************************************************************)
(* codegen.rs: generate_call_and_return.  The six emitted shapes.          *)
(***************************************************************************)
CallAndReturn(shape, call_args) == [shape |-> shape, call_args |-> call_args]

\* A generator that wraps every function without a return value in a promise.
generate_call_and_return_void_as_promise(call_args, has_return, returns_result, is_promise) ==
    IF returns_result
    THEN CallAndReturn(IF is_promise THEN "promise_result" ELSE "result", call_args)
    ELSE IF has_return
    THEN CallAndReturn(IF is_promise THEN "promise_value" ELSE "value", call_args)
    ELSE CallAndReturn("promise_void", call_args)

generate_call_and_return(call_args, has_return, returns_result, is_promise) ==
    IF is_promise THEN
        IF returns_result THEN CallAndReturn("promise_result", call_args)
        ELSE IF has_return THEN CallAndReturn("promise_value", call_args)
        ELSE CallAndReturn("promise_void", call_args)
    ELSE IF returns_result THEN CallAndReturn("result", call_args)
    ELSE IF has_return THEN CallAndReturn("value", call_args)
    ELSE CallAndReturn("void", call_args)

(***************************************************************************)
(* fast.rs: FastApiType and the type mapping.                              *)
(***************************************************************************)
FastApiType == {"Void", "Bool", "I32", "U32", "I64", "U64", "F32", "F64"}

\* A mapping that describes the unsigned integers as signed.
quote_ctype_signed(t) ==
    CASE t = "Void" -> "Void"
      [] t = "Bool" -> "Bool"
      [] t \in {"I32", "U32"} -> "Int32"
      [] t \in {"I64", "U64"} -> "Int64"
      [] t = "F32" -> "Float32"
      [] t = "F64" -> "Float64"

quote_ctype(t) ==
    CASE t = "Void" -> "Void"
      [] t = "Bool" -> "Bool"
      [] t = "I32" -> "Int32"
      [] t = "U32" -> "Uint32"
      [] t = "I64" -> "Int64"
      [] t = "U64" -> "Uint64"
      [] t = "F32" -> "Float32"
      [] t = "F64" -> "Float64"

quote_rust_type(t) ==
    CASE t = "Void" -> "()"
      [] t = "Bool" -> "bool"
      [] t = "I32" -> "i32"
      [] t = "U32" -> "u32"
      [] t = "I64" -> "i64"
      [] t = "U64" -> "u64"
      [] t = "F32" -> "f32"
      [] t = "F64" -> "f64"

\* A mapping that looks through Option and takes the class of what it wraps.
get_fast_api_type_through_option(ty) ==
    LET inner == IF ty.k = "path" /\ Len(ty.segs) > 0 /\ Last(ty.segs) = "Option"
                    /\ Len(ty.args) = 1
                 THEN ty.args[1] ELSE ty
    IN  IF inner.k = "path" /\ Len(inner.segs) > 0 THEN
            LET ident == Last(inner.segs)
            IN  CASE ident = "bool" -> <<"Bool">>
                  [] ident = "i32" -> <<"I32">>
                  [] ident = "u32" -> <<"U32">>
                  [] ident = "i64" -> <<"I64">>
                  [] ident = "u64" -> <<"U64">>
                  [] ident = "f32" -> <<"F32">>
                  [] ident = "f64" -> <<"F64">>
                  [] OTHER -> <<>>
        ELSE IF inner.k = "tuple" /\ Len(inner.args) = 0 THEN <<"Void">>
        ELSE <<>>

\* A mapping that lets the small and pointer-sized integers through as their
\* 32- and 64-bit relatives.
get_fast_api_type_widening(ty) ==
    IF ty.k = "path" /\ Len(ty.segs) > 0 THEN
        LET ident == Last(ty.segs)
        IN  CASE ident = "bool" -> <<"Bool">>
              [] ident \in {"i8", "i16", "i32"} -> <<"I32">>
              [] ident \in {"u8", "u16", "u32"} -> <<"U32">>
              [] ident \in {"i64", "isize"} -> <<"I64">>
              [] ident \in {"u64", "usize"} -> <<"U64">>
              [] ident = "f32" -> <<"F32">>
              [] ident = "f64" -> <<"F64">>
              [] OTHER -> <<>>
    ELSE IF ty.k = "tuple" /\ Len(ty.args) = 0 THEN <<"Void">>
    ELSE <<>>

get_fast_api_type(ty) ==
    IF ty.k = "path" /\ Len(ty.segs) > 0 THEN
        LET ident == Last(ty.segs)
        IN  CASE ident = "bool" -> <<"Bool">>
              [] ident = "i32" -> <<"I32">>
              [] ident = "u32" -> <<"U32">>
              [] ident = "i64" -> <<"I64">>
              [] ident = "u64" -> <<"U64">>
              [] ident = "f32" -> <<"F32">>
              [] ident = "f64" -> <<"F64">>
              [] OTHER -> <<>>
    ELSE IF ty.k = "tuple" /\ Len(ty.args) = 0 THEN <<"Void">>
    ELSE <<>>

\* A return-type mapping that forgets that no return type means void.
get_fast_api_return_type_no_default(ret) ==
    IF Len(ret) = 0 THEN <<>> ELSE get_fast_api_type(ret[1])

\* ret is the signature's output: <<>> for ReturnType::Default, <<ty>> otherwise.
get_fast_api_return_type(ret) ==
    IF Len(ret) = 0 THEN <<"Void">> ELSE get_fast_api_type(ret[1])

(***************************************************************************)
(* The emitted bundle, as data.  Every generator emits the original        *)
(* function; the other items are sequences of length 0 (not emitted) or 1. *)
(*   wrapper        the slow-path callback: its three spliced parts        *)
(*   fast_fn        the extern "C" function: parameter types, return type, *)
(*                  how it obtains state, what it passes to the function   *)
(*   cfunction_info the CFunctionInfo: return and argument CTypes          *)
(*   cfunction      the CFunction tying fast_fn to cfunction_info          *)
(*   template       the <fn>_v8_template helper: what it takes, what it    *)
(*                  stores as the callable's data                          *)
(*   compile_error  a compile_error! item at the top level of the bundle   *)
(***************************************************************************)
Wrapper(state_extraction, arg_extractions, call_and_return) ==
    [state_extraction |-> state_extraction,
     arg_extractions |-> arg_extractions,
     call_and_return |-> call_and_return]

Bundle(wrapper, fast_fn, cfunction_info, cfunction, template, compile_error) ==
    [input_fn |-> TRUE, wrapper |-> wrapper, fast_fn |-> fast_fn,
     cfunction_info |-> cfunction_info, cfunction |-> cfunction,
     template |-> template, compile_error |-> compile_error]

\* The fast function's parameters named after the signature's parameters.
fast_params(params, fast_param_types) ==
    [i \in 1..Len(params) |->
        [name |-> params[i].name, ty |-> quote_rust_type(fast_param_types[i])]]

call_args_for_fast(params) == [i \in 1..Len(params) |-> params[i].name]

generate_fast_api_pure(params, fast_param_types, fast_return, state_extraction, arg_extractions, call_and_return) ==
    Bundle(
        <<Wrapper(state_extraction, arg_extractions, call_and_return)>>,
        <<[params |-> <<[name |-> "_recv", ty |-> "v8::Local<v8::Value>"]>>
                        \o fast_params(params, fast_param_types)
                        \o <<[name |-> "_options",
                              ty |-> "*mut FastApiCallbackOptions"]>>,
           ret |-> quote_rust_type(fast_return),
           state |-> "none",
           call_args |-> call_args_for_fast(params)]>>,
        <<[ret |-> quote_ctype(fast_return),
           args |-> <<"V8Value">>
                    \o [i \in 1..Len(fast_param_types) |-> quote_ctype(fast_param_types[i])],
           int64 |-> "BigInt"]>>,
        <<[function |-> "fast_fn", info |-> "cfunction_info"]>>,
        <<[takes |-> "data", data |-> "given_or_undefined", fast |-> TRUE]>>,
        FALSE)

\* A generator that gives a state function the pure bundle around the slot
\* lookup.
generate_fast_api_with_state_from_slot(params, fast_param_types, fast_return, state_type, arg_extractions, call_and_return) ==
    generate_fast_api_pure(params, fast_param_types, fast_return,
                           generate_state_extraction(TRUE, <<state_type>>),
                           arg_extractions, call_and_return)

generate_fast_api_with_state(params, fast_param_types, fast_return, state_type, arg_extractions, call_and_return) ==
    LET inner == get_rc_inner_type(state_type)
        inner_state_type == IF Len(inner) > 0 THEN inner[1] ELSE state_type
    IN
    Bundle(
        <<Wrapper([form |-> "data", slot_ty |-> TypeStr(inner_state_type),
                   msg |-> <<"internal error: state data not set for ">>
                           \o TypeStr(state_type)],
                  arg_extractions, call_and_return)>>,
        <<[params |-> <<[name |-> "_recv", ty |-> "v8::Local<v8::Value>"]>>
                        \o fast_params(params, fast_param_types)
                        \o <<[name |-> "options",
                              ty |-> "*mut FastApiCallbackOptions"]>>,
           ret |-> quote_rust_type(fast_return),
           state |-> "options_data",
           call_args |-> <<"&state">> \o call_args_for_fast(params)]>>,
        <<[ret |-> quote_ctype(fast_return),
           args |-> <<"V8Value">>
                    \o [i \in 1..Len(fast_param_types) |-> quote_ctype(fast_param_types[i])]
                    \o <<"CallbackOptions">>,
           int64 |-> "BigInt"]>>,
        <<[function |-> "fast_fn", info |-> "cfunction_info"]>>,
        <<[takes |-> "state", data |-> "external_as_ptr", fast |-> TRUE]>>,
        FALSE)

\* The types of the leading parameters that are Fast API compatible: the loop
\* pushes one per parameter and stops at the first that is not.
RECURSIVE fast_prefix(_)
fast_prefix(params) ==
    IF Len(params) = 0 THEN <<>>
    ELSE LET t == get_fast_api_type(params[1].ty)
         IN  IF Len(t) = 0 THEN <<>> ELSE t \o fast_prefix(Tail(params))

\* The two slow-only returns.  Each quote! holds the function, a note and the
\* wrapper of the three handed-in parts; the notes are `//` comments of the
\* generator's own source, which are not tokens, so neither reaches the
\* emitted bundle, and the wrappers' `///` lines are the same text.
fallback_non_primitive(state_extraction, arg_extractions, call_and_return) ==
    Bundle(<<Wrapper(state_extraction, arg_extractions, call_and_return)>>,
           <<>>, <<>>, <<>>, <<>>, FALSE)

fallback_uses_scope(state_extraction, arg_extractions, call_and_return) ==
    Bundle(<<Wrapper(state_extraction, arg_extractions, call_and_return)>>,
           <<>>, <<>>, <<>>, <<>>, FALSE)

generate_fast_api_code(output, params, has_scope, has_state, state_type, state_extraction, arg_extractions, call_and_return) ==
    LET fast_param_types == fast_prefix(params)
        all_fast_compatible == Len(fast_param_types) = Len(params)
        fast_return_type == get_fast_api_return_type(output)
    IN  IF ~all_fast_compatible \/ Len(fast_return_type) = 0
        THEN fallback_non_primitive(state_extraction, arg_extractions, call_and_return)
        ELSE IF has_scope
        THEN fallback_uses_scope(state_extraction, arg_extractions, call_and_return)
        ELSE IF has_state THEN
            IF Len(state_type) > 0 THEN
                generate_fast_api_with_state(params, fast_param_types,
                                             fast_return_type[1], state_type[1],
                                             arg_extractions, call_and_return)
            ELSE Bundle(<<>>, <<>>, <<>>, <<>>, <<>>, TRUE)
        ELSE generate_fast_api_pure(params, fast_param_types, fast_return_type[1],
                                    state_extraction, arg_extractions, call_and_return)

(***************************************************************************)
(* lib.rs: the attribute macro.  A signature is                            *)
(*   inputs  the declared parameters [name, ty], scope and state included  *)
(*   output  <<>> (no return type) or <<ty>>                               *)
(*   attrs   [state_type (<<>> or <<ty>>), promise, fast]                  *)
(***************************************************************************)
Param(name, ty) == [name |-> name, ty |-> ty]

is_scope_name(name) == name = "scope" \/ name = "_scope"
is_state_name(name) == name = "state"

has_scope_of(inputs) == \E i \in 1..Len(inputs) : is_scope_name(inputs[i].name)
has_state_of(inputs) == \E i \in 1..Len(inputs) : is_state_name(inputs[i].name)

\* The declaration every test uses: the scope, when declared, is the first
\* parameter and the state, when declared, comes next.
SpecialsLead(inputs) ==
    \A i \in 1..Len(inputs) :
        /\ is_scope_name(inputs[i].name) => i = 1
        /\ is_state_name(inputs[i].name) =>
               i = (IF \E j \in 1..Len(inputs) : is_scope_name(inputs[j].name)
                    THEN 2 ELSE 1)

\* filter_map over the inputs: scope and state are skipped, the rest kept in order.
RECURSIVE params_of(_)
params_of(inputs) ==
    IF Len(inputs) = 0 THEN <<>>
    ELSE IF is_scope_name(inputs[1].name) \/ is_state_name(inputs[1].name)
         THEN params_of(Tail(inputs))
    ELSE <<inputs[1]>> \o params_of(Tail(inputs))

call_args_of(has_scope, has_state, params) ==
    (IF has_scope THEN <<"scope">> ELSE <<>>)
    \o (IF has_state THEN <<"&state">> ELSE <<>>)
    \o [i \in 1..Len(params) |-> params[i].name]

has_return_of(output) == Len(output) > 0
returns_result_of(output) == Len(output) > 0 /\ is_result_type(output[1])

\* The macro of lib.rs: the original function and the wrapper.
method(sig) ==
    LET params == params_of(sig.inputs)
        has_scope == has_scope_of(sig.inputs)
        has_state == has_state_of(sig.inputs)
    IN  Bundle(<<Wrapper(
                   generate_state_extraction(has_state, sig.attrs.state_type),
                   generate_arg_extractions(params),
                   generate_call_and_return(
                       call_args_of(has_scope, has_state, params),
                       has_return_of(sig.output),
                       returns_result_of(sig.output),
                       sig.attrs.promise))>>,
               <<>>, <<>>, <<>>, <<>>, FALSE)

\* generate_fast_api_code applied to a signature.  lib.rs declares none of
\* the modules and its macro has no fast option, so the generator has no
\* caller: it is applied here as a function, to the parts that the macro
\* prepares for every signature (the filtered parameters and the two flags)
\* and that generate_state_extraction, generate_arg_extractions and
\* generate_call_and_return build from them.
fast_api_code_of(sig) ==
    LET params == params_of(sig.inputs)
        has_scope == has_scope_of(sig.inputs)
        has_state == has_state_of(sig.inputs)
    IN  generate_fast_api_code(
            sig.output, params, has_scope, has_state, sig.attrs.state_type,
            generate_state_extraction(has_state, sig.attrs.state_type),
            generate_arg_extractions(params),
            generate_call_and_return(
                call_args_of(has_scope, has_state, params),
                has_return_of(sig.output),
                returns_result_of(sig.output),
                sig.attrs.promise))

(***************************************************************************)
(* The engine's values, the exceptions a wrapper throws and the Rust       *)
(* values bound to the wrapped function's parameters.                      *)
(***************************************************************************)
Js(t, v) == [t |-> t, v |-> v]
Undefined == Js("Undefined", 0)
Null == Js("Null", 0)
ThePromise == Js("Promise", 0)

ObjectTypes == {"Object", "Function", "Array", "Uint8Array", "ArrayBuffer", "Promise"}

Exc(kind, msg) == [kind |-> kind, msg |-> msg]

Native(tag, v) == [tag |-> tag, v |-> v]

\* FunctionCallbackArguments::get(idx): undefined past the arguments given.
args_get(a, idx) == IF idx + 1 <= Len(a) THEN a[idx + 1] ELSE Undefined

\* The runtime predicate a checked extraction names.
check_method(check, v) ==
    CASE check = "is_function" -> v.t = "Function"
      [] check = "is_object" -> v.t \in ObjectTypes
      [] check = "is_array" -> v.t = "Array"
      [] check = "is_uint8_array" -> v.t = "Uint8Array"
      [] check = "is_array_buffer" -> v.t = "ArrayBuffer"
      [] check = "is_string" -> v.t = "String"
      [] check = "is_number" -> v.t = "Number"
      [] OTHER -> FALSE

\* Local<Value>::try_into() for a v8::Local<X> target: X is the token before ">".
try_into(target, v) ==
    LET x == target[Len(target) - 1]
    IN  IF x = "Object" THEN v.t \in ObjectTypes ELSE v.t = x

NumberTypes == {<<"f64">>, <<"f32">>, <<"i32">>, <<"u32">>}

\* serde_v8::from_v8_any to the target type: <<value>> on success, <<>> on error.
from_v8_any(target, v) ==
    IF target \in NumberTypes THEN
        (IF v.t = "Number" THEN <<Native("val", v.v)>> ELSE <<>>)
    ELSE IF target = <<"bool">> THEN
        (IF v.t = "Boolean" THEN <<Native("val", v.v)>> ELSE <<>>)
    ELSE IF target = <<"String">> THEN
        (IF v.t = "String" THEN <<Native("val", v.v)>> ELSE <<>>)
    ELSE (IF v.t = "Object" THEN <<Native("val", v.v)>> ELSE <<>>)

\* The text of the serde error for a value of the wrong kind.
serde_error(v) == <<"invalid type: ", v.t>>

(***************************************************************************)
(* One emitted argument extraction, run on the call's arguments:           *)
(* [ok, native, exc].  On failure the wrapper throws exc and returns.      *)
(***************************************************************************)
Extracted(native) == [ok |-> TRUE, native |-> native, exc |-> Exc("", <<>>)]
\* An extraction whose failure branch throws and then goes on.
Refused_without_return(exc) == [ok |-> TRUE, native |-> Native("none", 0), exc |-> exc]

Refused(exc) == [ok |-> FALSE, native |-> Native("none", 0), exc |-> exc]

\* The absence test without the null case.
is_absent_undefined_only(v) == v.t = "Undefined"

\* __v8g_arg.is_undefined() || __v8g_arg.is_null()
is_absent(v) == v.t = "Undefined" \/ v.t = "Null"

run_extraction(e, a) ==
    LET v == args_get(a, e.idx)
        conv == from_v8_any(e.target, v)
    IN  CASE e.form = "option" ->
               IF is_absent(v) THEN Extracted(Native("none", 0))
               ELSE IF Len(conv) > 0 THEN Extracted(Native("some", conv[1].v))
               ELSE Refused(Exc("TypeError", e.msg \o <<": ">> \o serde_error(v)))
          [] e.form = "checked" ->
               IF ~check_method(e.check, v) THEN Refused(Exc("TypeError", e.msg))
               ELSE Extracted(Native("local", v.v))
          [] e.form = "value" -> Extracted(Native("local", v.v))
          [] e.form = "try_into" ->
               IF try_into(e.target, v) THEN Extracted(Native("local", v.v))
               ELSE Refused(Exc("TypeError", e.msg))
          [] OTHER ->
               IF Len(conv) > 0 THEN Extracted(conv[1])
               ELSE Refused(Exc("TypeError", e.msg \o <<": ">> \o serde_error(v)))

(***************************************************************************)
(* The signatures the model draws from.                                    *)
(***************************************************************************)
ParamNames == <<"a", "b", "c", "d">>
ScopeType == RefMut(Path(<<"v8", "PinScope">>, <<>>))
CounterRc == RcOf(Simple("Counter"))
StateParamType == Ref(CounterRc)
\* The state types an attribute may declare: the Rc, or the inner type alone.
StateTypes == {CounterRc, Simple("Counter")}

TypeLists(T) == UNION {[1..n -> T] : n \in 0..MaxParams}

named(ts) == [i \in 1..Len(ts) |-> Param(ParamNames[i], ts[i])]

InsertAt(s, p, x) == SubSeq(s, 1, p) \o <<x>> \o SubSeq(s, p + 1, Len(s))

\* The parameter lists with the scope and the state parameter declared anywhere.
InputsAnywhere(T) ==
    LET withScope(b) ==
            {b} \cup {InsertAt(b, p, Param("scope", ScopeType)) : p \in 0..Len(b)}
        withState(b) ==
            {b} \cup {InsertAt(b, p, Param("state", StateParamType)) : p \in 0..Len(b)}
    IN  UNION {UNION {withState(b) : b \in withScope(named(ts))} : ts \in TypeLists(T)}

\* The parameter lists of the shape the tests use: scope first, then state.
InputsLeading(T, scopes, states) ==
    {(IF sc THEN <<Param("_scope", ScopeType)>> ELSE <<>>)
       \o (IF st THEN <<Param("state", StateParamType)>> ELSE <<>>)
       \o named(ts) : ts \in TypeLists(T), sc \in scopes, st \in states}

Attrs(state_type, promise, fast) ==
    [state_type |-> state_type, promise |-> promise, fast |-> fast]

Signature(inputs, output, attrs) ==
    [inputs |-> inputs, output |-> output, attrs |-> attrs]

GenParamTypes ==
    {Simple("f64"), Simple("bool"), Simple("u8"), Simple("String"),
     OptionOf(Simple("f64")), LocalOf("Function")}

GenOutputs ==
    {<<>>, <<Simple("f64")>>, <<Simple("String")>>,
     <<ResultOf(Simple("f64"), Simple("String"))>>}

GenSignatures ==
    {Signature(inputs, output, Attrs(st, pr, fa)) :
        inputs \in InputsAnywhere(GenParamTypes), output \in GenOutputs,
        st \in {<<>>} \cup {<<ty>> : ty \in StateTypes}, pr \in BOOLEAN, fa \in BOOLEAN}

(***************************************************************************)
(* parse.rs: the attribute's arguments.  An argument is a nested meta, a   *)
(* path followed or not by `= value`, or a token that is no path at all    *)
(* (a bare literal).                                                       *)
(***************************************************************************)
MaxAttrItems == 2

TypeValue(ty) == <<[kind |-> "type", ty |-> <<ty>>, lit |-> <<>>]>>
LitStrValue(s) == <<[kind |-> "lit", ty |-> <<>>, lit |-> <<s>>]>>
\* syn::Path as the meta parser reads it: an optional leading `::` and the
\* segment idents; a token that starts no path has no segments.
SynPath(leading_colon, segments) ==
    [leading_colon |-> leading_colon, segments |-> segments]
MetaItem(segments, value) == [path |-> SynPath(FALSE, segments), value |-> value]
ColonMetaItem(segments, value) == [path |-> SynPath(TRUE, segments), value |-> value]

\* What the RefCells hold before any argument is read.
DefaultAttrs == [js_name |-> <<>>, state_type |-> <<>>, promise |-> FALSE, fast |-> FALSE]

\* meta.path.is_ident(name): no leading colon and the one segment `name`.
is_ident(path, name) == ~path.leading_colon /\ path.segments = <<name>>

\* One round of syn's nested-meta loop: the path is read, the closure runs,
\* and what the closure left unread must be a comma or the end.  The cells
\* the closure wrote stay written when the round fails.
meta_step(acc, item) ==
    IF item.path.segments = <<>> THEN [attrs |-> acc, ok |-> FALSE]
    ELSE IF is_ident(item.path, "state")
    THEN IF item.value # <<>> /\ item.value[1].kind = "type"
         THEN [attrs |-> [acc EXCEPT !.state_type = item.value[1].ty], ok |-> TRUE]
         ELSE [attrs |-> acc, ok |-> FALSE]
    ELSE IF is_ident(item.path, "name")
    THEN IF item.value # <<>> /\ item.value[1].kind = "lit"
         THEN [attrs |-> [acc EXCEPT !.js_name = item.value[1].lit], ok |-> TRUE]
         ELSE [attrs |-> acc, ok |-> FALSE]
    ELSE IF is_ident(item.path, "promise")
    THEN [attrs |-> [acc EXCEPT !.promise = TRUE], ok |-> item.value = <<>>]
    ELSE IF is_ident(item.path, "fast")
    THEN [attrs |-> [acc EXCEPT !.fast = TRUE], ok |-> item.value = <<>>]
    ELSE [attrs |-> acc, ok |-> FALSE]

\* syn::parse::Parser::parse(parser, attr): the rounds in order, ended by
\* the first one that fails.
RECURSIVE parse_nested_meta(_, _)
parse_nested_meta(acc, items) ==
    IF items = <<>> THEN [attrs |-> acc, ok |-> TRUE]
    ELSE LET r == meta_step(acc, Head(items))
         IN IF r.ok THEN parse_nested_meta(r.attrs, Tail(items)) ELSE r

\* syn::parse::<syn::LitStr>(attr): the whole attribute is one string literal.
bare_literal(items) ==
    Len(items) = 1 /\ ~items[1].path.leading_colon /\ items[1].path.segments = <<>>
        /\ items[1].value # <<>> /\ items[1].value[1].kind = "lit"

\* MethodAttrs::parse: the outcome of the parser is used for one thing only,
\* to try the bare literal; the cells are returned as they stand.
MethodAttrs_parse(items) ==
    LET r == parse_nested_meta(DefaultAttrs, items)
    IN IF ~r.ok /\ bare_literal(items)
       THEN [r.attrs EXCEPT !.js_name = items[1].value[1].lit]
       ELSE r.attrs

(***************************************************************************)
(* lib.rs: the MethodAttrs of the macro itself.  It has no field fast and  *)
(* its closure has no branch for the key: `fast` is a key it does not      *)
(* know.                                                                   *)
(***************************************************************************)
lib_DefaultAttrs == [js_name |-> <<>>, state_type |-> <<>>, promise |-> FALSE]

lib_meta_step(acc, item) ==
    IF item.path.segments = <<>> THEN [attrs |-> acc, ok |-> FALSE]
    ELSE IF is_ident(item.path, "state")
    THEN IF item.value # <<>> /\ item.value[1].kind = "type"
         THEN [attrs |-> [acc EXCEPT !.state_type = item.value[1].ty], ok |-> TRUE]
         ELSE [attrs |-> acc, ok |-> FALSE]
    ELSE IF is_ident(item.path, "name")
    THEN IF item.value # <<>> /\ item.value[1].kind = "lit"
         THEN [attrs |-> [acc EXCEPT !.js_name = item.value[1].lit], ok |-> TRUE]
         ELSE [attrs |-> acc, ok |-> FALSE]
    ELSE IF is_ident(item.path, "promise")
    THEN [attrs |-> [acc EXCEPT !.promise = TRUE], ok |-> item.value = <<>>]
    ELSE [attrs |-> acc, ok |-> FALSE]

RECURSIVE lib_parse_nested_meta(_, _)
lib_parse_nested_meta(acc, items) ==
    IF items = <<>> THEN [attrs |-> acc, ok |-> TRUE]
    ELSE LET r == lib_meta_step(acc, Head(items))
         IN IF r.ok THEN lib_parse_nested_meta(r.attrs, Tail(items)) ELSE r

lib_MethodAttrs_parse(items) ==
    LET r == lib_parse_nested_meta(lib_DefaultAttrs, items)
    IN IF ~r.ok /\ bare_literal(items)
       THEN [r.attrs EXCEPT !.js_name = items[1].value[1].lit]
       ELSE r.attrs

\* A run that starts from parsed attributes leaves the text out.
AttrsGiven == [items |-> <<>>, parsed |-> TRUE, js_name |-> <<>>]

VARIABLES
    attr,       \* the attribute's arguments as written, and whether parsed
    sig,        \* the signature the macro is applied to
    bundle,     \* <<>> before expansion, <<the emitted bundle>> after
    callable,   \* the function registered with the engine
    slot,       \* the context slot of the state type: <<>> or <<state>>
    owner,      \* the host's Rc to the capsule state: <<>> or <<state>>
    args,       \* the arguments of the call in progress
    entry,      \* the state's counter when the call began
    pc,         \* where the slow wrapper stands
    bound,      \* the parameters bound so far
    held,       \* the wrapper holds a clone of the state Rc
    thrown,     \* the exceptions thrown by this call, in order
    rv,         \* the values written to the return sink, in order
    deferred,   \* the promise resolver of this call
    invoked,    \* how many times this call invoked the wrapped function
    result,     \* what the wrapped function returned
    delivered,  \* what the script last observed
    stack       \* the calls suspended inside their wrapped function, outermost first

vars == <<attr, sig, bundle, callable, slot, owner, args, entry, pc, bound, held, thrown, rv,
          deferred, invoked, result, delivered, stack>>

Expanded == bundle # <<>>
TheBundle == bundle[1]
TheParams == params_of(sig.inputs)
HasScope == has_scope_of(sig.inputs)
HasState == has_state_of(sig.inputs)

NoCallable == [kind |-> "none", data |-> "undefined", fast |-> FALSE]
NoDeferred == [state |-> "none", value |-> <<>>, reason |-> <<>>, settles |-> 0]
NoResult == [tag |-> "none", v |-> 0, repr |-> TRUE]

\* Nothing expanded, nothing registered, no call in progress.
Fresh ==
    /\ bundle = <<>>
    /\ callable = NoCallable
    /\ args = <<>>
    /\ entry = 0
    /\ pc = "idle"
    /\ bound = <<>>
    /\ held = FALSE
    /\ thrown = <<>>
    /\ rv = <<>>
    /\ deferred = NoDeferred
    /\ invoked = 0
    /\ result = NoResult
    /\ delivered = <<>>
    /\ stack = <<>>

(***************************************************************************)
(* Macro expansion.                                                        *)
(***************************************************************************)
\* #[glue_v8::method(..)]: the expansion by the macro of lib.rs, which never
\* asks for the fast path.
Generate ==
    /\ attr.parsed
    /\ bundle = <<>>
    /\ ~sig.attrs.fast
    /\ bundle' = <<method(sig)>>
    /\ UNCHANGED <<stack, attr, sig, callable, slot, owner, args, entry, pc, bound, held, thrown,
                   rv, deferred, invoked, result, delivered>>

\* The fast-path generator applied to a signature whose attributes, as
\* parse.rs reads them, ask for the fast path.
GenerateFastApi ==
    /\ attr.parsed
    /\ bundle = <<>>
    /\ sig.attrs.fast
    /\ bundle' = <<fast_api_code_of(sig)>>
    /\ UNCHANGED <<stack, attr, sig, callable, slot, owner, args, entry, pc, bound, held, thrown,
                   rv, deferred, invoked, result, delivered>>

\* let attrs = MethodAttrs::parse(attr): the first thing the macro of lib.rs
\* does, with its own MethodAttrs.  The name is bound to _js_name and not
\* used again; nothing asks for the fast path.
ParseAttrs ==
    /\ ~attr.parsed
    /\ LET p == lib_MethodAttrs_parse(attr.items)
       IN /\ attr' = [attr EXCEPT !.parsed = TRUE, !.js_name = p.js_name]
          /\ sig' = [sig EXCEPT !.attrs = Attrs(p.state_type, p.promise, FALSE)]
    /\ UNCHANGED <<stack, bundle, callable, slot, owner, args, entry, pc, bound, held, thrown,
                   rv, deferred, invoked, result, delivered>>

\* MethodAttrs::parse of parse.rs applied to the same attribute: there `fast`
\* is a key.  The macro of lib.rs does not call it.
ParseModuleAttrs ==
    /\ ~attr.parsed
    /\ LET p == MethodAttrs_parse(attr.items)
       IN /\ attr' = [attr EXCEPT !.parsed = TRUE, !.js_name = p.js_name]
          /\ sig' = [sig EXCEPT !.attrs = Attrs(p.state_type, p.promise, p.fast)]
    /\ UNCHANGED <<stack, bundle, callable, slot, owner, args, entry, pc, bound, held, thrown,
                   rv, deferred, invoked, result, delivered>>

InitGen ==
    /\ sig \in GenSignatures
    /\ attr = AttrsGiven
    /\ slot = <<>>
    /\ owner = <<>>
    /\ Fresh

NextGen ==
    \/ Generate
    \/ GenerateFastApi

SpecGen == InitGen /\ [][NextGen]_vars

(***************************************************************************)
(* The wrapped function.  It is user code: the model gives it the shape of *)
(* the tests' functions.  It adds its numeric arguments to the state's     *)
(* counter (when it has state), stores the sum back and returns it (the    *)
(* tests' increment); with a bool return it tells whether the sum is even  *)
(* (the tests' is_even).  A fallible function may instead fail, and a      *)
(* value of a type that is not a primitive or a string may turn out not to *)
(* be convertible.                                                         *)
(***************************************************************************)
\* Largest value the state's counter is taken to: a call that would take it
\* further is not explored.
MaxCounter == 3

NumericTypes == {Simple("f64"), Simple("f32"), Simple("i32"), Simple("u32"), Simple("bool")}

RECURSIVE numeric_sum(_, _)
numeric_sum(params, natives) ==
    IF Len(params) = 0 \/ Len(natives) = 0 THEN 0
    ELSE (IF params[1].ty \in NumericTypes THEN natives[1].v ELSE 0)
         + numeric_sum(Tail(params), Tail(natives))

\* The value type of the output: T of Result<T, E>, or the declared type.
value_type(output) ==
    IF is_result_type(output[1]) THEN output[1].args[1] ELSE output[1]

\* Types whose conversion to an engine value cannot fail.
always_convertible(ty) == ty \in NumericTypes \cup {Simple("String")}

\* The new counter value and the returned number.
original_fn(output, params, natives, st) ==
    LET total == st + numeric_sum(params, natives)
    IN  IF Len(output) > 0 /\ value_type(output) = Simple("bool")
        THEN [state |-> total, v |-> IF total % 2 = 0 THEN 1 ELSE 0]
        ELSE [state |-> total, v |-> total]

\* The bound on the counter: the function may store what it computed.
WithinCounter(r) == r.state <= MaxCounter

\* format!("{}", err)
display(code) == <<"failure ", IdxStr(code)>>

\* The failure thrown as a type error.
generic_error_as_type_error(code) == Exc("TypeError", display(code))

\* v8::Exception::error(scope, v8::String::new(scope, &format!("{}", err)))
generic_error(code) == Exc("Error", display(code))

\* A conversion that never fails.
to_v8_never_fails(ty, r) == <<Js("Object", r.v)>>

\* serde_v8::to_v8 of the function's value: <<engine value>>, or <<>> on error.
to_v8(ty, r) ==
    IF ~r.repr THEN <<>>
    ELSE IF ty = Simple("bool") THEN <<Js("Boolean", r.v)>>
    ELSE IF ty \in NumericTypes THEN <<Js("Number", r.v)>>
    ELSE IF ty = Simple("String") THEN <<Js("String", r.v)>>
    ELSE <<Js("Object", r.v)>>

(***************************************************************************)
(* The promise resolver of a call.  Settling a promise that is no longer   *)
(* pending changes nothing; settles counts the resolve and reject calls.   *)
(***************************************************************************)
resolve(d, v) ==
    IF d.state = "pending"
    THEN [d EXCEPT !.state = "fulfilled", !.value = <<v>>, !.settles = @ + 1]
    ELSE [d EXCEPT !.settles = @ + 1]

\* A rejection that fulfils the promise with the error instead.
reject_fulfils(d, e) == resolve(d, e)

reject(d, e) ==
    IF d.state = "pending"
    THEN [d EXCEPT !.state = "rejected", !.reason = <<e>>, !.settles = @ + 1]
    ELSE [d EXCEPT !.settles = @ + 1]

(***************************************************************************)
(* Registration and the slow wrapper, statement by statement.              *)
(*   pc: idle -> state -> arg -> (resolver -> set_promise ->) invoke       *)
(*          -> in_fn -> (finish ->) done -> idle                           *)
(* While the wrapped function runs (in_fn) it holds the scope, when it     *)
(* declares one, and script it runs may call the callable again: the       *)
(* running wrapper's locals are kept in a frame on the stack until the     *)
(* inner wrapper returns.                                                  *)
(***************************************************************************)
TheWrapper == TheBundle.wrapper[1]
Shape == TheWrapper.call_and_return.shape
PromiseShapes == {"promise_result", "promise_value", "promise_void"}

\* The expansion holds a compile_error! item, at its top level or as the
\* wrapper's state extraction: the build stops at it.
has_compile_error(b) ==
    \/ b.compile_error
    \/ \E i \in 1..Len(b.wrapper) : b.wrapper[i].state_extraction.form = "compile_error"

\* The macro emitted a slow wrapper and no compile_error! item.
wrapper_emitted(b) == Len(b.wrapper) = 1 /\ ~has_compile_error(b)

\* The wrapper of an emission that leaves out the resolver and its promise.
after_args_invoke_first(w) == "invoke"

after_args(w) ==
    IF w.call_and_return.shape \in PromiseShapes THEN "resolver" ELSE "invoke"

\* A wrapper that goes from the state straight to the call.
after_state_skip_arguments(w) == after_args(w)

after_state(w) == IF Len(w.arg_extractions) > 0 THEN "arg" ELSE after_args(w)

\* A wrapper that extracts its arguments without looking up the state.
entry_pc_arguments_first(w) == after_state(w)

entry_pc(w) == IF w.state_extraction.form = "none" THEN after_state(w) ELSE "state"

\* v8::Function::new(scope, wrapper): the slow path alone, no associated data.
Register ==
    /\ bundle # <<>> /\ wrapper_emitted(bundle[1])
    /\ callable.kind = "none"
    /\ callable' = [kind |-> "function", data |-> "undefined", fast |-> FALSE]
    /\ UNCHANGED <<stack, attr, sig, bundle, slot, owner, args, entry, pc, bound, held, thrown,
                   rv, deferred, invoked, result, delivered>>

\* v8::Function::builder(wrapper).data(v8::null(scope).into()).build(scope):
\* the host builds the callable itself and gives it null as its data.
RegisterNullData ==
    /\ bundle # <<>> /\ wrapper_emitted(bundle[1])
    /\ callable.kind = "none"
    /\ callable' = [kind |-> "function", data |-> "null", fast |-> FALSE]
    /\ UNCHANGED <<stack, attr, sig, bundle, slot, owner, args, entry, pc, bound, held, thrown,
                   rv, deferred, invoked, result, delivered>>

\* A helper that keeps the state alive itself: the External holds the raw
\* pointer of a clone.
RegisterTemplate_cloning ==
    /\ bundle # <<>> /\ wrapper_emitted(bundle[1])
    /\ Len(bundle[1].template) = 1
    /\ callable.kind = "none"
    /\ \/ /\ bundle[1].template[1].takes = "state"
          /\ owner # <<>>
          /\ callable' = [kind |-> "template", data |-> "external", fast |-> TRUE]
          /\ owner' = <<[owner[1] EXCEPT !.strong = @ + 1]>>
       \/ /\ bundle[1].template[1].takes = "data"
          /\ callable' = [kind |-> "template", data |-> "undefined", fast |-> TRUE]
          /\ owner' = owner
    /\ UNCHANGED <<stack, attr, sig, bundle, slot, args, entry, pc, bound, held, thrown,
                   rv, deferred, invoked, result, delivered>>

\* <fn>_v8_template(scope, ..).get_function(): both paths; with state the
\* callable's data is an External holding Rc::as_ptr(state), and the owner's
\* count is left alone.
RegisterTemplate ==
    /\ bundle # <<>> /\ wrapper_emitted(bundle[1])
    /\ Len(bundle[1].template) = 1
    /\ callable.kind = "none"
    /\ \/ /\ bundle[1].template[1].takes = "state"
          /\ owner # <<>>
          /\ callable' = [kind |-> "template", data |-> "external", fast |-> TRUE]
       \/ /\ bundle[1].template[1].takes = "data"
          /\ callable' = [kind |-> "template", data |-> "undefined", fast |-> TRUE]
    /\ UNCHANGED <<stack, attr, sig, bundle, slot, owner, args, entry, pc, bound, held, thrown,
                   rv, deferred, invoked, result, delivered>>

\* Rc::new(state): a state object with the owner's one strong reference.
StateObject(value) == [value |-> value, strong |-> 1]

\* Rc::clone and the drop of an Rc at the end of its scope.
\* A wrapper that uses the reconstructed Rc itself where the code clones it.
rc_clone_borrowed(s) == s

rc_clone(s) == [s EXCEPT !.strong = @ + 1]

\* A wrapper whose clone is never released.
rc_drop_forgotten(s) == s

rc_drop(s) == [s EXCEPT !.strong = @ - 1]

\* A wrapper that hands the function a newly made state on every call.
current_state_fresh == StateObject(1).value

\* Where the emitted code takes the state from: the context slot (the
\* slot-based wrapper), the External of the callable (the data-based wrapper
\* and the direct-call function), or nowhere.
state_source ==
    IF bundle = <<>> \/ Len(TheBundle.wrapper) = 0 THEN "none"
    ELSE TheWrapper.state_extraction.form

\* The counter of the state the wrapped function is handed.
current_state ==
    IF state_source = "slot" /\ slot # <<>> THEN slot[1].value
    ELSE IF state_source = "data" /\ owner # <<>> THEN owner[1].value
    ELSE 0

\* The script calls the function and the engine takes the slow path.
Call(a) ==
    /\ pc = "idle" /\ callable.kind # "none"
    /\ args' = a
    /\ entry' = current_state
    /\ pc' = entry_pc(TheWrapper)
    /\ delivered' = <<>>
    /\ UNCHANGED <<stack, attr, sig, bundle, callable, slot, owner, bound, held, thrown, rv,
                   deferred, invoked, result>>

\* A wrapper that tests the data for undefined only and unwraps null.
ExtractState_undefined_only ==
    /\ pc = "state"
    /\ LET x == TheWrapper.state_extraction
       IN  \/ /\ x.form = "slot"
              /\ slot = <<>>
              /\ thrown' = Append(thrown, Exc("Error", x.msg))
              /\ pc' = "done"
              /\ UNCHANGED <<slot, owner, held>>
           \/ /\ x.form = "slot"
              /\ slot # <<>>
              /\ slot' = <<rc_clone(slot[1])>>
              /\ held' = TRUE
              /\ pc' = after_state(TheWrapper)
              /\ UNCHANGED <<owner, thrown>>
           \/ /\ x.form = "data"
              /\ callable.data = "undefined"
              /\ thrown' = Append(thrown, Exc("Error", x.msg))
              /\ pc' = "done"
              /\ UNCHANGED <<slot, owner, held>>
           \/ /\ x.form = "data"
              /\ callable.data \in {"external", "null"}
              /\ owner' = <<rc_clone(owner[1])>>
              /\ held' = TRUE
              /\ pc' = after_state(TheWrapper)
              /\ UNCHANGED <<slot, thrown>>
    /\ UNCHANGED <<stack, attr, sig, bundle, callable, args, entry, bound, rv, deferred, invoked,
                   result, delivered>>

\* A wrapper that takes the callable's data for a capsule without looking.
ExtractState_unchecked_data ==
    /\ pc = "state"
    /\ LET x == TheWrapper.state_extraction
       IN  \/ /\ x.form = "slot"
              /\ slot = <<>>
              /\ thrown' = Append(thrown, Exc("Error", x.msg))
              /\ pc' = "done"
              /\ UNCHANGED <<slot, owner, held>>
           \/ /\ x.form = "slot"
              /\ slot # <<>>
              /\ slot' = <<rc_clone(slot[1])>>
              /\ held' = TRUE
              /\ pc' = after_state(TheWrapper)
              /\ UNCHANGED <<owner, thrown>>
           \/ /\ x.form = "data"
              /\ owner' = <<rc_clone(owner[1])>>
              /\ held' = TRUE
              /\ pc' = after_state(TheWrapper)
              /\ UNCHANGED <<slot, thrown>>
    /\ UNCHANGED <<stack, attr, sig, bundle, callable, args, entry, bound, rv, deferred, invoked,
                   result, delivered>>

\* #state_extraction
ExtractState ==
    /\ pc = "state"
    /\ LET x == TheWrapper.state_extraction
       IN  \/ /\ x.form = "slot"
              /\ slot = <<>>
              /\ thrown' = Append(thrown, Exc("Error", x.msg))
              /\ pc' = "done"
              /\ UNCHANGED <<slot, owner, held>>
           \/ /\ x.form = "slot"
              /\ slot # <<>>
              /\ slot' = <<rc_clone(slot[1])>>
              /\ held' = TRUE
              /\ pc' = after_state(TheWrapper)
              /\ UNCHANGED <<owner, thrown>>
           \/ /\ x.form = "data"
              /\ callable.data \in {"undefined", "null"}
              /\ thrown' = Append(thrown, Exc("Error", x.msg))
              /\ pc' = "done"
              /\ UNCHANGED <<slot, owner, held>>
           \/ /\ x.form = "data"
              /\ callable.data = "external"
              /\ owner' = <<rc_clone(owner[1])>>
              /\ held' = TRUE
              /\ pc' = after_state(TheWrapper)
              /\ UNCHANGED <<slot, thrown>>
    /\ UNCHANGED <<stack, attr, sig, bundle, callable, args, entry, bound, rv, deferred, invoked,
                   result, delivered>>

\* A wrapper that runs its argument extractions from the last to the first.
ExtractArg_descending ==
    /\ pc = "arg"
    /\ LET e == TheWrapper.arg_extractions[Len(TheWrapper.arg_extractions) - Len(bound)]
           r == run_extraction(e, args)
       IN  IF r.ok
           THEN /\ bound' = Append(bound, r.native)
                /\ pc' = IF Len(bound) + 1 = Len(TheWrapper.arg_extractions)
                         THEN after_args(TheWrapper) ELSE "arg"
                /\ UNCHANGED thrown
           ELSE /\ thrown' = Append(thrown, r.exc)
                /\ pc' = "done"
                /\ UNCHANGED bound
    /\ UNCHANGED <<stack, attr, sig, bundle, callable, slot, owner, args, entry, held, rv, deferred,
                   invoked, result, delivered>>

\* #(#arg_extractions)* : the next one
ExtractArg ==
    /\ pc = "arg"
    /\ LET e == TheWrapper.arg_extractions[Len(bound) + 1]
           r == run_extraction(e, args)
       IN  IF r.ok
           THEN /\ bound' = Append(bound, r.native)
                /\ pc' = IF Len(bound) + 1 = Len(TheWrapper.arg_extractions)
                         THEN after_args(TheWrapper) ELSE "arg"
                /\ UNCHANGED thrown
           ELSE /\ thrown' = Append(thrown, r.exc)
                /\ pc' = "done"
                /\ UNCHANGED bound
    /\ UNCHANGED <<stack, attr, sig, bundle, callable, slot, owner, args, entry, held, rv, deferred,
                   invoked, result, delivered>>

\* let resolver = v8::PromiseResolver::new(scope).unwrap();
CreateResolver ==
    /\ pc = "resolver"
    /\ deferred' = [NoDeferred EXCEPT !.state = "pending"]
    /\ pc' = "set_promise"
    /\ UNCHANGED <<stack, attr, sig, bundle, callable, slot, owner, args, entry, bound, held, thrown,
                   rv, invoked, result, delivered>>

\* rv.set(resolver.get_promise(scope).into());
SetPromise ==
    /\ pc = "set_promise"
    /\ rv' = Append(rv, ThePromise)
    /\ pc' = "invoke"
    /\ UNCHANGED <<stack, attr, sig, bundle, callable, slot, owner, args, entry, bound, held, thrown,
                   deferred, invoked, result, delivered>>

\* Largest number of calls suspended inside their wrapped function.
MaxDepth == 1

\* The locals of the call in progress.
Frame ==
    [args |-> args, entry |-> entry, pc |-> pc, bound |-> bound, held |-> held,
     thrown |-> thrown, rv |-> rv, deferred |-> deferred, invoked |-> invoked,
     result |-> result]

\* #fn_name(#(#call_args),*): control passes to the wrapped function.
Invoke ==
    /\ pc = "invoke"
    /\ invoked' = invoked + 1
    /\ pc' = "in_fn"
    /\ UNCHANGED <<stack, attr, sig, bundle, callable, slot, owner, args, entry, bound, held,
                   thrown, rv, deferred, result, delivered>>

\* A function that takes the scope can run script through it (the tests'
\* call_twice calls its callback), and the script can call the wrapper: the
\* call in progress is suspended inside the function and a new one begins.
\* The script handles what the inner call throws.
Reenter(a) ==
    /\ pc = "in_fn" /\ HasScope /\ callable.kind # "none"
    /\ Len(stack) < MaxDepth
    /\ stack' = Append(stack, Frame)
    /\ args' = a
    /\ entry' = current_state
    /\ pc' = entry_pc(TheWrapper)
    /\ bound' = <<>>
    /\ held' = FALSE
    /\ thrown' = <<>>
    /\ rv' = <<>>
    /\ deferred' = NoDeferred
    /\ invoked' = 0
    /\ result' = NoResult
    /\ delivered' = <<>>
    /\ UNCHANGED <<attr, sig, bundle, callable, slot, owner>>

\* The wrapped function returns: it has read the state it was handed, stored
\* the new counter in it and produced its value.
Complete ==
    /\ pc = "in_fn"
    /\ LET r == original_fn(sig.output, TheParams, bound, current_state)
           fallible == Shape \in {"promise_result", "result"}
           certain == Len(sig.output) = 0 \/ always_convertible(value_type(sig.output))
       IN  /\ held => WithinCounter(r)
           /\ \E failed \in (IF fallible THEN BOOLEAN ELSE {FALSE}),
                 repr \in (IF certain THEN {TRUE} ELSE BOOLEAN) :
                 result' = IF failed
                           THEN [tag |-> "err", v |-> r.v % 2, repr |-> TRUE]
                           ELSE [tag |-> (IF fallible THEN "ok"
                                          ELSE IF Len(sig.output) > 0 THEN "value"
                                          ELSE "unit"),
                                 v |-> r.v, repr |-> repr]
           /\ IF held /\ state_source = "slot"
              THEN slot' = <<[slot[1] EXCEPT !.value = r.state]>> /\ UNCHANGED owner
              ELSE IF held /\ state_source = "data"
              THEN owner' = <<[owner[1] EXCEPT !.value = r.state]>> /\ UNCHANGED slot
              ELSE UNCHANGED <<slot, owner>>
    /\ pc' = IF Shape = "void" THEN "done" ELSE "finish"
    /\ UNCHANGED <<stack, attr, sig, bundle, callable, args, entry, bound, held, thrown, rv,
                   deferred, invoked, delivered>>

\* A result shape that throws the failure and writes it to the sink as well.
Finish_throws_and_sets ==
    /\ pc = "finish"
    /\ LET conv == to_v8(value_type(sig.output), result)
           error == generic_error(result.v)
       IN  CASE Shape = "promise_result" ->
                  /\ deferred' = IF result.tag = "err" THEN reject(deferred, error)
                                 ELSE IF Len(conv) > 0 THEN resolve(deferred, conv[1])
                                 ELSE deferred
                  /\ UNCHANGED <<rv, thrown>>
             [] Shape = "promise_value" ->
                  /\ deferred' = IF Len(conv) > 0 THEN resolve(deferred, conv[1])
                                 ELSE deferred
                  /\ UNCHANGED <<rv, thrown>>
             [] Shape = "promise_void" ->
                  /\ deferred' = resolve(deferred, Undefined)
                  /\ UNCHANGED <<rv, thrown>>
             [] Shape = "result" ->
                  /\ IF result.tag = "err"
                     THEN thrown' = Append(thrown, error) /\ rv' = Append(rv, Undefined)
                     ELSE IF Len(conv) > 0
                     THEN rv' = Append(rv, conv[1]) /\ UNCHANGED thrown
                     ELSE UNCHANGED <<rv, thrown>>
                  /\ UNCHANGED deferred
             [] OTHER ->
                  /\ IF Len(conv) > 0
                     THEN rv' = Append(rv, conv[1])
                     ELSE UNCHANGED rv
                  /\ UNCHANGED <<deferred, thrown>>
    /\ pc' = "done"
    /\ UNCHANGED <<stack, attr, sig, bundle, callable, slot, owner, args, entry, bound, held,
                   invoked, result, delivered>>

\* What follows the invocation in the emitted shape.
Finish ==
    /\ pc = "finish"
    /\ LET conv == to_v8(value_type(sig.output), result)
           error == generic_error(result.v)
       IN  CASE Shape = "promise_result" ->
                  /\ deferred' = IF result.tag = "err" THEN reject(deferred, error)
                                 ELSE IF Len(conv) > 0 THEN resolve(deferred, conv[1])
                                 ELSE deferred
                  /\ UNCHANGED <<rv, thrown>>
             [] Shape = "promise_value" ->
                  /\ deferred' = IF Len(conv) > 0 THEN resolve(deferred, conv[1])
                                 ELSE deferred
                  /\ UNCHANGED <<rv, thrown>>
             [] Shape = "promise_void" ->
                  /\ deferred' = resolve(deferred, Undefined)
                  /\ UNCHANGED <<rv, thrown>>
             [] Shape = "result" ->
                  /\ IF result.tag = "err"
                     THEN thrown' = Append(thrown, error) /\ UNCHANGED rv
                     ELSE IF Len(conv) > 0
                     THEN rv' = Append(rv, conv[1]) /\ UNCHANGED thrown
                     ELSE UNCHANGED <<rv, thrown>>
                  /\ UNCHANGED deferred
             [] OTHER ->
                  /\ IF Len(conv) > 0
                     THEN rv' = Append(rv, conv[1])
                     ELSE UNCHANGED rv
                  /\ UNCHANGED <<deferred, thrown>>
    /\ pc' = "done"
    /\ UNCHANGED <<stack, attr, sig, bundle, callable, slot, owner, args, entry, bound, held,
                   invoked, result, delivered>>

(***************************************************************************)
(* The wrapper returns: its locals are dropped (the clone of the state Rc  *)
(* among them) and the script observes the exception, or else the return   *)
(* sink (undefined when nothing was written to it).                        *)
(***************************************************************************)
Observation(path, exc, value, d) ==
    [path |-> path, exc |-> exc, value |-> value, deferred |-> d]

slow_observation ==
    Observation("slow", thrown, IF rv = <<>> THEN Undefined ELSE Last(rv), deferred)

Return ==
    /\ pc = "done"
    /\ delivered' = <<slow_observation>>
    /\ IF held /\ state_source = "slot"
       THEN slot' = <<rc_drop(slot[1])>> /\ UNCHANGED owner
       ELSE IF held /\ state_source = "data"
       THEN owner' = <<rc_drop(owner[1])>> /\ UNCHANGED slot
       ELSE UNCHANGED <<slot, owner>>
    /\ IF stack = <<>>
       THEN /\ pc' = "idle"
            /\ args' = <<>>
            /\ entry' = 0
            /\ bound' = <<>>
            /\ held' = FALSE
            /\ thrown' = <<>>
            /\ rv' = <<>>
            /\ deferred' = NoDeferred
            /\ invoked' = 0
            /\ result' = NoResult
            /\ UNCHANGED stack
       ELSE LET f == stack[Len(stack)]
            IN  /\ pc' = f.pc
                /\ args' = f.args
                /\ entry' = f.entry
                /\ bound' = f.bound
                /\ held' = f.held
                /\ thrown' = f.thrown
                /\ rv' = f.rv
                /\ deferred' = f.deferred
                /\ invoked' = f.invoked
                /\ result' = f.result
                /\ stack' = SubSeq(stack, 1, Len(stack) - 1)
    /\ UNCHANGED <<attr, sig, bundle, callable>>

(***************************************************************************)
(* The fast path.  The engine calls the extern "C" function only when the  *)
(* arguments already have the types the CFunctionInfo lists; it converts   *)
(* them, and the returned primitive, by those types.                       *)
(***************************************************************************)
ctype_accepts(ctype, v) ==
    IF ctype = "Bool" THEN v.t = "Boolean"
    ELSE IF ctype \in {"Int64", "Uint64"} THEN v.t = "BigInt"
    ELSE v.t = "Number"

\* The argument CTypes between the receiver and the call options.
user_ctypes(info) ==
    LET n == IF info.args[Len(info.args)] = "CallbackOptions"
             THEN Len(info.args) - 2 ELSE Len(info.args) - 1
    IN  SubSeq(info.args, 2, n + 1)

fast_callable(b, a) ==
    /\ Len(b.fast_fn) = 1 /\ Len(b.cfunction_info) = 1
    /\ LET ct == user_ctypes(b.cfunction_info[1])
       IN  /\ Len(a) = Len(ct)
           /\ \A i \in 1..Len(ct) : ctype_accepts(ct[i], a[i])

\* The engine value of the primitive the fast function returns.
from_ctype(ctype, v) ==
    IF ctype = "Void" THEN Undefined
    ELSE IF ctype = "Bool" THEN Js("Boolean", v)
    ELSE IF ctype \in {"Int64", "Uint64"} THEN Js("BigInt", v)
    ELSE Js("Number", v)

\* The extern "C" function: state from options.data when it has state, then the
\* original function on the primitive arguments.
fast_fn_call(b, output, params, a, st) ==
    original_fn(output, params, [i \in 1..Len(a) |-> Native("val", a[i].v)], st)

fast_observation(b, output, params, a, st) ==
    Observation("fast", <<>>,
                from_ctype(b.cfunction_info[1].ret,
                           fast_fn_call(b, output, params, a, st).v),
                NoDeferred)

FastCall(a) ==
    /\ pc = "idle" /\ callable.fast
    /\ fast_callable(TheBundle, a)
    /\ TheBundle.fast_fn[1].state = "options_data" =>
           WithinCounter(fast_fn_call(TheBundle, sig.output, TheParams, a, current_state))
    /\ delivered' = <<fast_observation(TheBundle, sig.output, TheParams, a, current_state)>>
    /\ IF TheBundle.fast_fn[1].state = "options_data"
       THEN owner' = <<[owner[1] EXCEPT !.value =
                          fast_fn_call(TheBundle, sig.output, TheParams, a,
                                       current_state).state]>>
       ELSE UNCHANGED owner
    /\ UNCHANGED <<stack, attr, sig, bundle, callable, slot, args, entry, pc, bound, held, thrown,
                   rv, deferred, invoked, result>>

(***************************************************************************)
(* The slow path on its own: signatures of the kinds the wrapper has to    *)
(* validate, registered with v8::Function::new and called with arguments   *)
(* of every kind.  A function that calls back into its callable does so    *)
(* with the arguments it was called with.                                  *)
(***************************************************************************)
RunParamTypes ==
    {Simple("String"), OptionOf(Simple("String")), LocalOf("Function"),
     LocalOf("Promise")}

RunOutputs ==
    {<<>>, <<Simple("Blob")>>, <<ResultOf(Simple("Blob"), Simple("String"))>>}

RunValues ==
    {Undefined, Null, Js("String", 1), Js("Function", 2), Js("Promise", 3)}

RunSignatures ==
    {Signature(inputs, output,
               Attrs(IF has_state_of(inputs) THEN <<CounterRc>> ELSE <<>>, pr, FALSE)) :
        inputs \in InputsLeading(RunParamTypes, {TRUE}, BOOLEAN), output \in RunOutputs,
        pr \in BOOLEAN}

\* The argument lists a call may carry: up to one argument per parameter.
ArgLists(V, n) == UNION {[1..k -> V] : k \in 0..n}

Init ==
    /\ sig \in RunSignatures
    /\ attr = AttrsGiven
    /\ slot \in (IF HasState THEN {<<>>, <<StateObject(1)>>} ELSE {<<>>})
    /\ owner = <<>>
    /\ Fresh

Next ==
    \/ Generate
    \/ Register
    \/ \E a \in ArgLists(RunValues, Len(TheParams)) : Call(a)
    \/ ExtractState
    \/ ExtractArg
    \/ CreateResolver
    \/ SetPromise
    \/ Invoke
    \/ Reenter(args)
    \/ Complete
    \/ Finish
    \/ Return

Spec == Init /\ [][Next]_vars

(***************************************************************************)
(* The handle kinds on their own: one v8::Local parameter of every kind,   *)
(* written v8::Local<v8::K> or Local<K>, at every index (behind parameters *)
(* that accept anything), called with values of every kind.                *)
(***************************************************************************)
KindNames ==
    {"Function", "Object", "Array", "Uint8Array", "ArrayBuffer", "String", "Number",
     "Value", "Promise"}

KindTypes == {LocalOf(k) : k \in KindNames} \cup {BareLocalOf(k) : k \in KindNames}

KindValues ==
    {Undefined, Null, Js("String", 1), Js("Number", 2), Js("Function", 3),
     Js("Object", 4), Js("Array", 5), Js("Uint8Array", 6), Js("ArrayBuffer", 7),
     Js("Promise", 8)}

KindSignatures ==
    {Signature(<<Param("scope", ScopeType)>>
                 \o named([i \in 1..n |-> LocalOf("Value")] \o <<ty>>),
               <<>>, Attrs(<<>>, FALSE, FALSE)) :
        n \in 0..(MaxParams - 1), ty \in KindTypes}

InitKinds ==
    /\ sig \in KindSignatures
    /\ attr = AttrsGiven
    /\ slot = <<>>
    /\ owner = <<>>
    /\ Fresh

NextKinds ==
    \/ Generate
    \/ Register
    \/ \E a \in ArgLists(KindValues, Len(TheParams)) : Call(a)
    \/ ExtractArg
    \/ Invoke
    \/ Reenter(args)
    \/ Complete
    \/ Return

SpecKinds == InitKinds /\ [][NextKinds]_vars

(***************************************************************************)
(* Both paths: signatures of primitives given to the fast generator, with  *)
(* and without state and promise mode, registered through the helper       *)
(* (or, slow path alone, through v8::Function::new).                       *)
(***************************************************************************)
FastParamTypes == {Simple("f64"), Simple("bool")}

FastOutputs == {<<>>, <<Simple("f64")>>, <<Simple("bool")>>}

FastValues == {Js("Number", 1), Js("Number", 2), Js("Boolean", 1), Js("String", 1)}

FastSignatures ==
    {Signature(inputs, output,
               Attrs(IF has_state_of(inputs) THEN <<CounterRc>> ELSE <<>>, pr, TRUE)) :
        inputs \in InputsLeading(FastParamTypes, {FALSE}, BOOLEAN),
        output \in FastOutputs, pr \in BOOLEAN}

InitFast ==
    /\ sig \in FastSignatures
    /\ attr = AttrsGiven
    /\ slot = <<>>
    /\ owner = IF HasState THEN <<StateObject(1)>> ELSE <<>>
    /\ Fresh

NextFast ==
    \/ GenerateFastApi
    \/ Register
    \/ RegisterNullData
    \/ RegisterTemplate
    \/ \E a \in ArgLists(FastValues, Len(TheParams)) : Call(a)
    \/ \E a \in ArgLists(FastValues, Len(TheParams)) : FastCall(a)
    \/ ExtractState
    \/ ExtractArg
    \/ CreateResolver
    \/ SetPromise
    \/ Invoke
    \/ Complete
    \/ Finish
    \/ Return

SpecFast == InitFast /\ [][NextFast]_vars

(***************************************************************************)
(* State in the context slot: callables of the shape of the tests'         *)
(* increment, all bound to one context and called one after another.  The  *)
(* host populates the slot once, before any call.                          *)
(***************************************************************************)
SlotParamTypes == {Simple("i32")}

SlotOutputs == {<<>>, <<Simple("i32")>>}

SlotValues == {Js("Number", 1), Js("Number", 2), Js("String", 1)}

SlotSignatures ==
    {Signature(inputs, output, Attrs(<<CounterRc>>, pr, FALSE)) :
        inputs \in InputsLeading(SlotParamTypes, {TRUE}, {TRUE}),
        output \in SlotOutputs, pr \in BOOLEAN}

\* The script turns to another callable bound to the same context.
SelectCallable ==
    /\ pc = "idle" /\ callable.kind = "function"
    /\ \E other \in SlotSignatures \ {sig} :
          /\ sig' = other
          /\ bundle' = <<method(other)>>
    /\ UNCHANGED <<stack, attr, callable, slot, owner, args, entry, pc, bound, held, thrown,
                   rv, deferred, invoked, result, delivered>>

InitSlot ==
    /\ sig \in SlotSignatures
    /\ attr = AttrsGiven
    /\ slot \in {<<>>, <<StateObject(1)>>}
    /\ owner = <<>>
    /\ Fresh

NextSlot ==
    \/ Generate
    \/ Register
    \/ SelectCallable
    \/ \E a \in ArgLists(SlotValues, Len(TheParams)) : Call(a)
    \/ ExtractState
    \/ ExtractArg
    \/ CreateResolver
    \/ SetPromise
    \/ Invoke
    \/ \E a \in ArgLists(SlotValues, Len(TheParams)) : Reenter(a)
    \/ Complete
    \/ Finish
    \/ Return

SpecSlot == InitSlot /\ [][NextSlot]_vars

(***************************************************************************)
(* The macro from the attribute's text on: parse, then expand.             *)
(***************************************************************************)
AttrItems ==
    {MetaItem(<<"state">>, TypeValue(CounterRc)),
     MetaItem(<<"state">>, <<>>),
     MetaItem(<<"name">>, LitStrValue("jsName")),
     MetaItem(<<"promise">>, <<>>),
     MetaItem(<<"promise">>, LitStrValue("jsName")),
     MetaItem(<<"fast">>, <<>>),
     MetaItem(<<"promsie">>, <<>>),
     MetaItem(<<"state", "x">>, TypeValue(CounterRc)),
     ColonMetaItem(<<"promise">>, <<>>),
     ColonMetaItem(<<>>, LitStrValue("jsName")),
     MetaItem(<<>>, LitStrValue("jsName"))}

AttrLists == UNION {[1..n -> AttrItems] : n \in 0..MaxAttrItems}

ParseSignatures ==
    {Signature(inputs, <<Simple("f64")>>, Attrs(<<>>, FALSE, FALSE)) :
        inputs \in InputsLeading({Simple("f64")}, {FALSE}, BOOLEAN)}

InitParse ==
    /\ sig \in ParseSignatures
    /\ attr \in {[items |-> l, parsed |-> FALSE, js_name |-> <<>>] : l \in AttrLists}
    /\ slot = <<>>
    /\ owner = <<>>
    /\ Fresh

NextParse ==
    \/ ParseAttrs
    \/ ParseModuleAttrs
    \/ Generate
    \/ GenerateFastApi

SpecParse == InitParse /\ [][NextParse]_vars

(***************************************************************************)
(* The classifier on its own: generate_fast_api_code's compatibility check *)
(* of the parameters and of the return type, on signatures over types of   *)
(* every class.                                                            *)
(***************************************************************************)
ClassTypes ==
    {Simple("bool"), Simple("i32"), Simple("u32"), Simple("i64"), Simple("u64"),
     Simple("f32"), Simple("f64"), UnitType,
     Path(<<"std", "primitive", "f64">>, <<>>),
     Simple("i8"), Simple("u8"), Simple("i16"), Simple("u16"),
     Simple("isize"), Simple("usize"),
     Simple("String"), Ref(Simple("str")), Ref(Simple("f64")),
     OptionOf(Simple("f64")), ResultOf(Simple("f64"), Simple("String")),
     LocalOf("Function"), LocalOf("Number"), RcOf(Simple("Counter")),
     Simple("Blob"), [k |-> "tuple", segs |-> <<>>, args |-> <<Simple("f64")>>]}

ClassSignatures ==
    {Signature(named(ts), output, Attrs(<<>>, FALSE, TRUE)) :
        ts \in {<<>>} \cup {<<t>> : t \in ClassTypes},
        output \in {<<>>} \cup {<<t>> : t \in ClassTypes}}

\* The loop over the parameters and the check of the return type.
ClassifyFast ==
    /\ attr.parsed
    /\ bundle = <<>>
    /\ sig.attrs.fast
    /\ LET fast_param_types == fast_prefix(TheParams)
       IN  bundle' = <<[fast_param_types |-> fast_param_types,
                        all_fast_compatible |-> Len(fast_param_types) = Len(TheParams),
                        fast_return_type |-> get_fast_api_return_type(sig.output)]>>
    /\ UNCHANGED <<stack, attr, sig, callable, slot, owner, args, entry, pc, bound, held, thrown,
                   rv, deferred, invoked, result, delivered>>

InitTypes ==
    /\ sig \in ClassSignatures
    /\ attr = AttrsGiven
    /\ slot = <<>>
    /\ owner = <<>>
    /\ Fresh

NextTypes == ClassifyFast

SpecTypes == InitTypes /\ [][NextTypes]_vars

(***************************************************************************)
(* Properties of the generators (SpecGen).                                 *)
(***************************************************************************)
\* The primitives the Fast API carries, as types.
FastPrimitives ==
    {Simple("bool"), Simple("i32"), Simple("u32"), Simple("i64"), Simple("u64"),
     Simple("f32"), Simple("f64"), UnitType}

\* The three eligibility conditions of the fast path.
Eligible ==
    /\ \A i \in 1..Len(TheParams) : TheParams[i].ty \in FastPrimitives
    /\ (sig.output = <<>> \/ sig.output[1] \in FastPrimitives)
    /\ ~HasScope

FastPairEmitted(b) ==
    Len(b.fast_fn) = 1 /\ Len(b.cfunction_info) = 1 /\ Len(b.cfunction) = 1

NoFastItems(b) ==
    Len(b.fast_fn) = 0 /\ Len(b.cfunction_info) = 0 /\ Len(b.cfunction) = 0
    /\ Len(b.template) = 0

SlowWrapperOnly(b) == b.input_fn /\ Len(b.wrapper) = 1 /\ NoFastItems(b)

\* The bundle does not compile: a compile_error! at the top level or in the wrapper.
GenerationFails(b) ==
    \/ b.compile_error
    \/ (Len(b.wrapper) = 1 /\ b.wrapper[1].state_extraction.form = "compile_error")

StateTypeMissing == HasState /\ sig.attrs.state_type = <<>>

\* C1 as stated: with the fast attribute, the fast pair is emitted exactly for
\* the eligible signatures, and every other signature gets the slow wrapper
\* alone and no generation failure.
C1_AsStated ==
    (Expanded /\ sig.attrs.fast) =>
        /\ FastPairEmitted(TheBundle) <=> Eligible
        /\ ~Eligible => (SlowWrapperOnly(TheBundle) /\ ~GenerationFails(TheBundle))

\* C1 amended: the statement holds for every signature whose state parameter,
\* if any, has a declared state type; a signature with a state parameter and no
\* declared state type gets no fast pair and a bundle that does not compile.
C1_FastPairIffEligible ==
    (Expanded /\ sig.attrs.fast) =>
        /\ ~StateTypeMissing =>
             /\ FastPairEmitted(TheBundle) <=> Eligible
             /\ Eligible => Len(TheBundle.wrapper) = 1
             /\ ~Eligible => SlowWrapperOnly(TheBundle)
             /\ ~GenerationFails(TheBundle)
        /\ StateTypeMissing =>
             /\ NoFastItems(TheBundle)
             /\ GenerationFails(TheBundle)

C1_Witness ==
    /\ Expanded /\ sig.attrs.fast /\ Eligible /\ HasState
    /\ Len(TheParams) = 2
    /\ FastPairEmitted(TheBundle)
    /\ SpecialsLead(sig.inputs) /\ ~has_compile_error(TheBundle)

(***************************************************************************)
(* Properties of the two call paths (SpecFast).                            *)
(***************************************************************************)
\* The slow wrapper of a callable built by the template helper has finished a
\* call whose arguments the direct-call function would have accepted.
BothPathsApply ==
    /\ Expanded /\ pc = "done" /\ callable.kind = "template"
    /\ FastPairEmitted(TheBundle)
    /\ fast_callable(TheBundle, args)

\* What the direct-call function delivers for the arguments of the call in progress.
FastDelivers == fast_observation(TheBundle, sig.output, TheParams, args, entry)

\* C2: whenever a fast pair is emitted, a call with primitive arguments
\* delivers the same value of the same kind to the script through the slow
\* wrapper as through the direct-call function, under every combination of
\* options that yields a fast pair, promise mode included.
C2_SlowFastAgree ==
    BothPathsApply =>
        /\ slow_observation.exc = <<>>
        /\ slow_observation.value = FastDelivers.value

\* Outside promise mode the two paths do agree, on the value and on the state
\* the call leaves behind.
C2_AgreeOutsidePromiseMode ==
    (BothPathsApply /\ ~sig.attrs.promise) =>
        /\ slow_observation.exc = <<>>
        /\ slow_observation.value = FastDelivers.value
        /\ HasState =>
             owner[1].value
               = fast_fn_call(TheBundle, sig.output, TheParams, args, entry).state

\* In promise mode the slow wrapper hands the script a promise while the
\* direct-call function hands it the bare primitive.
C2_PromiseModeDiverges ==
    /\ BothPathsApply /\ sig.attrs.promise
    /\ sig.output = <<Simple("f64")>> /\ Len(args) = 2
    /\ slow_observation.value = ThePromise
    /\ FastDelivers.value.t = "Number"

(***************************************************************************)
(* Properties of the slow wrapper (Spec).  The cases are told apart by the *)
(* call's inputs: the signature, the context slot and the arguments.       *)
(***************************************************************************)
InCall == Expanded /\ pc # "idle"

\* The wrapper has run its last statement and is about to return.
CallOver == Expanded /\ pc = "done"

PromiseMode == sig.attrs.promise

Fallible == sig.output # <<>> /\ Last(sig.output[1].segs) = "Result"

\* The state parameter's slot is empty: the InternalStateError case.
StateAbsent == HasState /\ slot = <<>>

\* The argument the script passed at position i (from 1), if it passed one.
Omitted(i) == i > Len(args)

\* Whether the argument at position i is one the declared type accepts.
Acceptable(i) ==
    LET ty == TheParams[i].ty
        t == IF Omitted(i) THEN "Undefined" ELSE args[i].t
    IN  CASE ty = Simple("String") -> t = "String"
          [] ty = OptionOf(Simple("String")) -> t \in {"Undefined", "Null", "String"}
          [] ty = LocalOf("Function") -> t = "Function"
          [] ty = LocalOf("Promise") -> t = "Promise"

\* The first position whose argument is refused: 0 when there is none.
FirstBad ==
    IF \A i \in 1..Len(TheParams) : Acceptable(i) THEN 0
    ELSE CHOOSE i \in 1..Len(TheParams) :
             ~Acceptable(i) /\ \A j \in 1..(i - 1) : Acceptable(j)

\* The ArgumentTypeError case: state was found and some argument is refused.
ArgFailed == ~StateAbsent /\ FirstBad > 0

\* State and every argument were extracted.
Extractable == ~StateAbsent /\ FirstBad = 0

\* The ApplicationError case: the wrapped function returned a failure.
AppFailed == result.tag = "err"

\* C3: in promise mode the deferred is created before its promise is placed
\* in the return sink, the promise is placed before the wrapped function is
\* invoked, the deferred is settled only after the function has returned, and
\* the sink holds the promise and nothing else from then on; a call whose
\* state and arguments were all extracted goes through these steps.
C3_PromiseStepOrder ==
    (InCall /\ PromiseMode) =>
        /\ rv # <<>> => (deferred.state # "none" /\ rv = <<ThePromise>>)
        /\ invoked > 0 => (rv = <<ThePromise>> /\ Extractable)
        /\ invoked <= 1
        /\ deferred.settles > 0 =>
             (invoked = 1 /\ result.tag # "none" /\ rv = <<ThePromise>>)
        /\ (pc = "done" /\ Extractable) =>
             (deferred.state # "none" /\ rv = <<ThePromise>> /\ invoked = 1
              /\ thrown = <<>>)

C3_Witness ==
    /\ CallOver /\ PromiseMode /\ HasState /\ Len(TheParams) = 2
    /\ Extractable /\ Fallible
    /\ deferred.state = "fulfilled" /\ deferred.settles = 1
    /\ rv = <<ThePromise>> /\ invoked = 1

\* C4: in promise mode, when the wrapper returns from a call that invoked the
\* wrapped function, the deferred has been settled exactly once: fulfilled
\* when the function succeeded, rejected when it returned a failure; never
\* pending and never settled twice.
C4_SettledExactlyOnce ==
    (CallOver /\ PromiseMode /\ invoked > 0) =>
        /\ deferred.settles = 1
        /\ deferred.state # "pending"
        /\ AppFailed => deferred.state = "rejected"
        /\ ~AppFailed => deferred.state = "fulfilled"

\* The deferred is never settled twice, and it is settled once whenever the
\* function failed or its value could be converted.
C4_SettledUnlessUnconvertible ==
    (CallOver /\ PromiseMode /\ invoked > 0) =>
        /\ deferred.settles <= 1
        /\ AppFailed => (deferred.state = "rejected" /\ deferred.settles = 1)
        /\ (~AppFailed /\ result.repr) =>
             (deferred.state = "fulfilled" /\ deferred.settles = 1)
        /\ (~AppFailed /\ ~result.repr) =>
             (deferred.state = "pending" /\ deferred.settles = 0)

\* The wrapper returns with the promise in the sink and the deferred pending.
C4_LeftPending ==
    /\ CallOver /\ PromiseMode /\ invoked = 1
    /\ ~AppFailed /\ ~result.repr
    /\ rv = <<ThePromise>> /\ thrown = <<>>
    /\ deferred.state = "pending" /\ deferred.settles = 0

\* The three per-call errors as the script sees them.
StateErrorThrown ==
    thrown = <<Exc("Error", <<"internal error: state not found for ",
                              "Rc", "<", "Counter", ">">>)>>

TypeErrorThrown == Len(thrown) = 1 /\ thrown[1].kind = "TypeError"

FailureThrown == thrown = <<Exc("Error", display(result.v))>>

SomeError == StateAbsent \/ ArgFailed \/ (Extractable /\ AppFailed)

\* C5 as stated: every per-call error is a synchronous throw outside promise
\* mode and, in promise mode, a settled deferred whose promise is in the
\* return sink, with nothing thrown.
C5_AsStated ==
    (CallOver /\ SomeError) =>
        /\ ~PromiseMode => (Len(thrown) = 1 /\ rv = <<>>)
        /\ PromiseMode =>
             /\ thrown = <<>>
             /\ rv = <<ThePromise>>
             /\ deferred.state = "rejected"

\* C5 amended: outside promise mode every per-call error is a synchronous
\* throw.  In promise mode only the wrapped function's failure settles the
\* deferred (rejected, promise in the sink, nothing thrown); a missing state
\* and a refused argument are thrown synchronously before any deferred
\* exists, with the sink unset.
C5_ErrorDelivery ==
    (CallOver /\ SomeError) =>
        /\ StateAbsent =>
             (StateErrorThrown /\ rv = <<>> /\ deferred.state = "none" /\ invoked = 0)
        /\ ArgFailed =>
             (TypeErrorThrown /\ rv = <<>> /\ deferred.state = "none" /\ invoked = 0)
        /\ (Extractable /\ AppFailed /\ ~PromiseMode) =>
             (FailureThrown /\ rv = <<>> /\ deferred.state = "none")
        /\ (Extractable /\ AppFailed /\ PromiseMode) =>
             /\ thrown = <<>>
             /\ rv = <<ThePromise>>
             /\ deferred.state = "rejected"
             /\ deferred.reason = <<Exc("Error", display(result.v))>>
             /\ deferred.settles = 1

C5_Witness ==
    /\ CallOver /\ PromiseMode /\ Extractable /\ AppFailed
    /\ HasState /\ Len(TheParams) = 2
    /\ deferred.state = "rejected" /\ rv = <<ThePromise>>

\* A refused argument in promise mode: thrown, no promise.
C5_ThrownInPromiseMode ==
    /\ CallOver /\ PromiseMode /\ ArgFailed
    /\ TypeErrorThrown /\ rv = <<>> /\ deferred.state = "none"

\* C6: when the extraction of an argument fails (an Option<T>, a v8::Local
\* or a deserialized parameter), a type error is thrown, the wrapped
\* function is not invoked and the return sink is left unset.
C6_ArgumentFailureAborts ==
    (InCall /\ ArgFailed) =>
        /\ invoked = 0
        /\ rv = <<>>
        /\ deferred.state = "none"
        /\ Len(bound) < FirstBad
        /\ pc = "done" =>
             /\ TypeErrorThrown
             /\ Len(bound) = FirstBad - 1
             /\ thrown[1].msg[2] = IdxStr(FirstBad - 1)

C6_Witness ==
    /\ CallOver /\ ArgFailed /\ FirstBad = 2
    /\ TheParams[2].ty = LocalOf("Function")
    /\ TypeErrorThrown /\ invoked = 0 /\ rv = <<>>

\* The parameter at position i is declared Option<T>.
IsOptional(i) ==
    TheParams[i].ty.segs = <<"Option">> /\ Len(TheParams[i].ty.args) = 1

\* T of the Option<T> at position i, as written.
InnerTypeText(i) == TypeStr(TheParams[i].ty.args[1])

\* The argument at position i is undefined, null, or was not passed.
AbsentArg(i) == Omitted(i) \/ args[i] \in {Undefined, Null}

\* The argument at position i was passed and converts to the String of an
\* Option<String>.
ConvertibleArg(i) == ~Omitted(i) /\ args[i].t = "String"

\* The extraction at position i is the one that threw.
ThrewAt(i) == pc = "done" /\ ~StateAbsent /\ thrown # <<>> /\ invoked = 0
              /\ Len(bound) = i - 1

\* C7: for an Option<T> parameter at any position, an argument that is
\* undefined, null or omitted binds the parameter to None and raises no
\* error, and the wrapped function is invoked when nothing else is refused;
\* an argument convertible to T binds the parameter to Some(value).
C7_OptionalAbsentOrPresent ==
    InCall =>
        \A i \in 1..Len(TheParams) :
            IsOptional(i) =>
                /\ AbsentArg(i) =>
                     /\ ~ThrewAt(i)
                     /\ Len(bound) >= i => bound[i] = Native("none", 0)
                     /\ (pc = "done" /\ Extractable) => invoked = 1
                /\ ConvertibleArg(i) =>
                     /\ ~ThrewAt(i)
                     /\ Len(bound) >= i => bound[i] = Native("some", args[i].v)

C7_Witness ==
    /\ CallOver /\ Len(TheParams) = 2 /\ IsOptional(2)
    /\ Len(args) = 1 /\ Extractable
    /\ bound[2] = Native("none", 0) /\ invoked = 1

\* An Option<T> parameter bound to Some and one bound to None by null.
C7_WitnessPresent ==
    /\ CallOver /\ Len(TheParams) = 2 /\ IsOptional(1) /\ IsOptional(2)
    /\ Len(args) = 2 /\ args[1] = Null /\ ConvertibleArg(2)
    /\ bound = <<Native("none", 0), Native("some", args[2].v)>> /\ invoked = 1

\* The tokens of sub appear in msg, contiguously.
Contains(msg, sub) ==
    \E k \in 1..(Len(msg) - Len(sub) + 1) : SubSeq(msg, k, k + Len(sub) - 1) = sub

\* C8: for an Option<T> parameter, an argument that is neither undefined nor
\* null and does not convert to T raises a type error whose message carries
\* the argument's index and names T, not Option<T>.
C8_OptionalErrorNamesInner ==
    (CallOver /\ ArgFailed /\ IsOptional(FirstBad)) =>
        /\ TypeErrorThrown
        /\ SubSeq(thrown[1].msg, 1, 3 + Len(InnerTypeText(FirstBad)))
             = <<"argument ", IdxStr(FirstBad - 1), ": expected ">>
               \o InnerTypeText(FirstBad)
        /\ ~Contains(thrown[1].msg, <<"Option">>)
        /\ invoked = 0

C8_Witness ==
    /\ CallOver /\ ArgFailed /\ FirstBad = 2 /\ IsOptional(2)
    /\ Len(args) = 2 /\ args[2].t = "Function"
    /\ TypeErrorThrown /\ invoked = 0
    /\ SubSeq(thrown[1].msg, 1, 4) = <<"argument ", "1", ": expected ", "String">>

\* C10 as stated: for a fallible function outside promise mode, a failure is
\* thrown as a generic error carrying the stringified failure with the sink
\* unset, and every success places the converted value in the sink.
C10_AsStated ==
    (CallOver /\ ~PromiseMode /\ Fallible /\ invoked = 1) =>
        /\ AppFailed => (FailureThrown /\ rv = <<>>)
        /\ ~AppFailed => (Len(rv) = 1 /\ thrown = <<>>)

\* C10 amended: a failure is thrown as a generic error (not a type error)
\* whose message is the stringified failure, sink unset; a success whose
\* value converts places the converted value in the sink and throws nothing;
\* a success whose value does not convert leaves the sink unset and throws
\* nothing.
C10_FallibleOutcome ==
    (CallOver /\ ~PromiseMode /\ Fallible /\ invoked = 1) =>
        /\ AppFailed =>
             /\ thrown = <<Exc("Error", <<"failure ", IdxStr(result.v)>>)>>
             /\ rv = <<>>
        /\ (~AppFailed /\ result.repr) =>
             (rv = <<Js("Object", result.v)>> /\ thrown = <<>>)
        /\ (~AppFailed /\ ~result.repr) => (rv = <<>> /\ thrown = <<>>)
        /\ deferred.state = "none"

C10_Witness ==
    /\ CallOver /\ ~PromiseMode /\ Fallible /\ invoked = 1
    /\ AppFailed /\ HasState /\ Len(TheParams) = 2
    /\ thrown # <<>> /\ thrown[1].kind = "Error" /\ rv = <<>>

\* A success placed in the sink, and a success that is dropped.
C10_WitnessSuccess ==
    /\ CallOver /\ ~PromiseMode /\ Fallible /\ invoked = 1
    /\ ~AppFailed /\ result.repr /\ Len(rv) = 1 /\ rv[1].t = "Object"

C10_WitnessDropped ==
    /\ CallOver /\ ~PromiseMode /\ Fallible /\ invoked = 1
    /\ ~AppFailed /\ ~result.repr /\ rv = <<>> /\ thrown = <<>>

(***************************************************************************)
(* Properties of the handle kinds (SpecKinds).                             *)
(***************************************************************************)
\* The handle parameter is the last one; its kind is the inner name.
HandlePos == Len(TheParams)

HandleKind == Last(TheParams[HandlePos].ty.args[1].segs)

\* The kinds the generator gives a runtime predicate.
PredicateKinds ==
    {"Function", "Object", "Array", "Uint8Array", "ArrayBuffer", "String", "Number"}

\* The engine's predicate of each kind, on the kind of value passed.
KindHolds(kind, t) ==
    CASE kind = "Value" -> TRUE
      [] kind = "Object" ->
           t \in {"Object", "Function", "Array", "Uint8Array", "ArrayBuffer", "Promise"}
      [] OTHER -> t = kind

\* The call passed the handle parameter a value its kind's predicate refuses.
HandleRefused ==
    /\ CallOver
    /\ ~KindHolds(HandleKind,
                  IF HandlePos > Len(args) THEN "Undefined" ELSE args[HandlePos].t)

MustBeA == <<"argument ", IdxStr(HandlePos - 1), " must be a ", HandleKind>>

\* C9 as stated: for a handle parameter of any kind, an unrecognized inner
\* name included, a value failing the kind's predicate raises a type error
\* whose message contains "argument <index> must be a <Kind>".
C9_AsStated ==
    HandleRefused => (TypeErrorThrown /\ Contains(thrown[1].msg, MustBeA))

\* C9 amended: for the seven kinds with a runtime predicate the message is
\* "argument <index> must be a <Kind>"; a v8::Value handle accepts every
\* value; a handle with an unrecognized inner name raises a type error whose
\* message is "argument <index>: expected <the declared type>".  In every
\* refused case the wrapped function is not invoked.
C9_HandleKindErrors ==
    /\ HandleRefused =>
         /\ TypeErrorThrown /\ invoked = 0
         /\ HandleKind \in PredicateKinds => thrown[1].msg = MustBeA
         /\ HandleKind \notin PredicateKinds =>
              /\ thrown[1].msg = <<"argument ", IdxStr(HandlePos - 1), ": expected ">>
                                 \o TypeStr(TheParams[HandlePos].ty)
              /\ ~Contains(thrown[1].msg, <<" must be a ">>)
    /\ (CallOver /\ ~HandleRefused) => (thrown = <<>> /\ invoked = 1)
    /\ (CallOver /\ HandleKind = "Value") => ~HandleRefused

C9_Witness ==
    /\ HandleRefused /\ HandlePos = 2 /\ HandleKind = "Uint8Array"
    /\ TheParams[2].ty = BareLocalOf("Uint8Array")
    /\ Len(args) = 2 /\ args[2].t = "ArrayBuffer"
    /\ thrown = <<Exc("TypeError", <<"argument ", "1", " must be a ", "Uint8Array">>)>>

\* A handle with an unrecognized inner name refusing a value.
C9_WitnessUnrecognized ==
    /\ HandleRefused /\ HandlePos = 2 /\ HandleKind = "Promise"
    /\ thrown = <<Exc("TypeError", <<"argument ", "1", ": expected ", "v8", "::", "Local",
                                     "<", "v8", "::", "Promise", ">">>)>>

(***************************************************************************)
(* Properties of the context slot (SpecSlot).                              *)
(***************************************************************************)
\* The sum of the numbers the call passed.
RECURSIVE AmountSum(_)
AmountSum(a) ==
    IF Len(a) = 0 THEN 0 ELSE a[1].v + AmountSum(Tail(a))

\* The counter after a call that starts from counter c with arguments a.
CounterAfter(c, a) == c + AmountSum(a)

\* A step of a wrapper that runs the wrapped function.
InvokeStep == pc = "in_fn" /\ pc' \in {"finish", "done"}

\* C11: with the state in the context slot, every call of every callable
\* bound to the context works on the one state stored in the slot: the
\* wrapped function starts from the counter the earlier calls left and its
\* change stays in the slot, and no step of a wrapper populates, clears or
\* replaces the slot.
C11_SharedSlotState ==
    [][/\ (slot = <<>>) <=> (slot' = <<>>)
       /\ slot # <<>> =>
            /\ ~InvokeStep => slot'[1].value = slot[1].value
            /\ InvokeStep =>
                 /\ slot'[1].value = CounterAfter(slot[1].value, args)
                 /\ result'.tag \in {"value", "unit"} =>
                      result'.v = CounterAfter(slot[1].value, args)
            /\ (pc = "idle" /\ pc' # "idle") => entry' = slot[1].value
       /\ owner' = owner]_vars

\* A later call has started from the counter that earlier calls left (the
\* slot was populated with 1) and has moved it on.
C11_Witness ==
    /\ CallOver /\ slot # <<>> /\ invoked = 1 /\ stack = <<>>
    /\ entry = 2 /\ Len(args) = 1 /\ AmountSum(args) = 1
    /\ slot[1].value = CounterAfter(2, args)
    /\ slot[1].value # entry

\* A call that began at counter 1 with amount 1 ends at counter 3: a call made
\* from inside its function moved the counter first, and it went on from there.
C11_WitnessReentered ==
    /\ CallOver /\ slot # <<>> /\ invoked = 1 /\ stack = <<>>
    /\ entry = 1 /\ Len(args) = 1 /\ AmountSum(args) = 1
    /\ slot[1].value = 3

(***************************************************************************)
(* More properties of the slow wrapper (Spec).                             *)
(***************************************************************************)
\* C12: with the state in the context slot, a call made while the slot is
\* empty throws the generic error "internal error: state not found for
\* <type>" whatever the arguments are: the state is looked up before any
\* argument is examined, the wrapped function is not invoked and the return
\* sink is left unset.
C12_StateLookedUpFirst ==
    (InCall /\ StateAbsent) =>
        /\ pc \in {"state", "done"}
        /\ bound = <<>>
        /\ invoked = 0
        /\ rv = <<>>
        /\ deferred.state = "none"
        /\ pc = "done" =>
             /\ thrown = <<Exc("Error", <<"internal error: state not found for ">>
                                        \o TypeStr(sig.attrs.state_type[1]))>>
             /\ thrown[1].kind # "TypeError"

\* The slot is empty and the arguments are refused as well: the error is the
\* state error.
C12_Witness ==
    /\ CallOver /\ StateAbsent /\ Len(TheParams) = 2
    /\ FirstBad = 1 /\ ~Acceptable(2)
    /\ StateErrorThrown /\ invoked = 0 /\ rv = <<>>

\* The same error with arguments that would all have been accepted.
C12_WitnessValidArguments ==
    /\ CallOver /\ StateAbsent /\ Len(TheParams) = 2 /\ Len(args) = 2
    /\ FirstBad = 0 /\ PromiseMode
    /\ StateErrorThrown /\ invoked = 0 /\ rv = <<>>

(***************************************************************************)
(* More properties of the generators (SpecGen).                            *)
(***************************************************************************)
\* The bundle holds a wrapper or a direct-call function that looks state up
\* when it is called.
LooksUpStateAtRunTime(b) ==
    \/ (Len(b.wrapper) = 1 /\ b.wrapper[1].state_extraction.form \in {"slot", "data"})
    \/ (Len(b.fast_fn) = 1 /\ b.fast_fn[1].state # "none")

\* C13: a signature with a state parameter and no declared state type gets,
\* on every generation path (the macro alone; fast requested and eligible;
\* fast requested and not eligible), a bundle that fails to build, and never
\* a wrapper that would fail only when called.
C13_MissingStateTypeFailsBuild ==
    (Expanded /\ StateTypeMissing) =>
        /\ GenerationFails(TheBundle)
        /\ has_compile_error(TheBundle)
        /\ ~LooksUpStateAtRunTime(TheBundle)
        /\ Len(TheBundle.fast_fn) = 0

\* The three paths.
C13_Witness ==
    /\ Expanded /\ StateTypeMissing /\ ~sig.attrs.fast /\ Len(TheParams) = 2
    /\ TheBundle.wrapper[1].state_extraction.form = "compile_error"

C13_WitnessFastEligible ==
    /\ Expanded /\ StateTypeMissing /\ sig.attrs.fast /\ Eligible
    /\ TheBundle.compile_error /\ Len(TheBundle.wrapper) = 0

C13_WitnessFastIneligible ==
    /\ Expanded /\ StateTypeMissing /\ sig.attrs.fast /\ ~Eligible
    /\ ~TheBundle.compile_error
    /\ TheBundle.wrapper[1].state_extraction.form = "compile_error"

(***************************************************************************)
(* Properties of attribute parsing (SpecParse).                            *)
(***************************************************************************)
RecognizedKeys == {"state", "name", "promise", "fast"}

\* The parser comes to a key it does not know: every argument before it is
\* read without error.
HasUnknownKey ==
    \E i \in 1..Len(attr.items) :
        /\ ~attr.items[i].path.leading_colon
        /\ Len(attr.items[i].path.segments) = 1
        /\ attr.items[i].path.segments[1] \notin RecognizedKeys
        /\ parse_nested_meta(DefaultAttrs, SubSeq(attr.items, 1, i - 1)).ok

\* C14: an attribute with an unknown key ends the build with an error and no
\* wrapper is generated, wherever the key stands among the recognized ones.
C14_UnknownKeyFailsBuild ==
    HasUnknownKey => ~(Expanded /\ wrapper_emitted(TheBundle))

(***************************************************************************)
(* State binding of the fast-path generator (SpecGen).                     *)
(***************************************************************************)
\* The attribute asks for the fast path and declares the state the function
\* takes.
FastWithState == sig.attrs.fast /\ HasState /\ sig.attrs.state_type # <<>>

\* Every emitted wrapper recovers the state from the callable's data.
StateFromCapsule(b) ==
    /\ \A i \in 1..Len(b.wrapper) : b.wrapper[i].state_extraction.form = "data"
    /\ \A i \in 1..Len(b.fast_fn) : b.fast_fn[i].state = "options_data"

\* The slow wrapper reads the context slot.
StateFromSlot(b) ==
    Len(b.wrapper) = 1 /\ b.wrapper[1].state_extraction.form = "slot"

\* C15: whenever the fast path and state are both requested, every wrapper
\* emitted for the function takes its state from the per-registration
\* capsule and never from the context slot: the slow wrapper and the
\* direct-call function of an eligible function, and the one slow wrapper
\* emitted when an eligibility gate fails.
C15_CapsuleAlways ==
    (Expanded /\ FastWithState) =>
        /\ Len(TheBundle.wrapper) >= 1
        /\ StateFromCapsule(TheBundle)

\* What the generator emits: for an eligible function the slow wrapper and
\* the direct-call function read the capsule and the helper takes the owner;
\* when a gate fails the one wrapper emitted is built around the state
\* extraction it was handed, the lookup in the context slot.
C15_CapsuleWhenEligible ==
    (Expanded /\ FastWithState) =>
        IF Eligible
        THEN /\ FastPairEmitted(TheBundle)
             /\ StateFromCapsule(TheBundle)
             /\ TheBundle.template[1].takes = "state"
        ELSE /\ SlowWrapperOnly(TheBundle)
             /\ StateFromSlot(TheBundle)
             /\ TheBundle.wrapper[1].state_extraction
                    = generate_state_extraction(TRUE, sig.attrs.state_type)

\* An eligible function: both wrappers are emitted and read the capsule.
C15_Witness ==
    Expanded /\ FastWithState /\ Eligible /\ Len(TheParams) > 0
        /\ StateFromCapsule(TheBundle) /\ Len(TheBundle.fast_fn) = 1
        /\ SpecialsLead(sig.inputs) /\ ~has_compile_error(TheBundle)

\* A gate fails: the one wrapper emitted reads the context slot.
C15_WitnessFallback ==
    Expanded /\ FastWithState /\ ~Eligible /\ StateFromSlot(TheBundle)
        /\ TheBundle.fast_fn = <<>>
        /\ SpecialsLead(sig.inputs) /\ ~has_compile_error(TheBundle)

(***************************************************************************)
(* The capsule's reference count (SpecFast).                               *)
(***************************************************************************)
\* C16: with capsule state neither wrapper acquires the state: the owner's
\* count is never incremented or decremented, at any step of any call.
C16_AsStated ==
    owner # <<>> => owner[1].strong = StateObject(1).strong

\* What the emitted code does: the direct-call function never changes the
\* owner's count; the slow wrapper takes one clone (an owning acquisition)
\* when it recovers the state and releases it when
\* it returns, so the count is the owner's own between calls and one more
\* while a slow call holds the state.
C16_CloneBalanced ==
    owner # <<>> =>
        /\ owner[1].strong = StateObject(1).strong + (IF held THEN 1 ELSE 0)
        /\ held => (InCall /\ TheWrapper.state_extraction.form = "data")
        /\ pc = "idle" => ~held

C16_Witness ==
    owner # <<>> /\ held /\ pc = "invoke"
        /\ owner[1].strong = StateObject(1).strong + 1

\* A fast call has changed the state and the count is the owner's own.
C16_WitnessAfterFastCall ==
    owner # <<>> /\ pc = "idle" /\ delivered # <<>> /\ delivered[1].path = "fast"
        /\ owner[1].value # StateObject(1).value
        /\ owner[1].strong = StateObject(1).strong

\* The step of the registration helper.
TemplateStep == callable.kind = "none" /\ callable'.kind = "template"

\* A step of the engine calling the direct-call function.
FastStep ==
    pc = "idle" /\ pc' = "idle" /\ <<delivered, owner>>' # <<delivered, owner>>

\* C17: the registration helper of a function with capsule state leaves the
\* owner as it is, count included, and puts the raw pointer of the owner's
\* state in the callable's data; from then on the state either call path
\* hands the function, and the state the function changes, is the owner's:
\* the context slot stays empty.
C17_HelperLeavesOwner ==
    [][/\ TemplateStep =>
            /\ owner' = owner
            /\ HasState =>
                 /\ TheBundle.template[1].data = "external_as_ptr"
                 /\ callable'.data = "external"
       /\ (HasState /\ callable.kind = "template") =>
            /\ callable' = callable /\ slot = <<>> /\ slot' = <<>>
            /\ InvokeStep =>
                 owner'[1].value =
                     original_fn(sig.output, TheParams, bound, owner[1].value).state
            /\ FastStep =>
                 \E a \in ArgLists(FastValues, Len(TheParams)) :
                     /\ fast_callable(TheBundle, a)
                     /\ owner'[1].value =
                            fast_fn_call(TheBundle, sig.output, TheParams, a,
                                         owner[1].value).state
                     /\ delivered' =
                            <<fast_observation(TheBundle, sig.output, TheParams, a,
                                               owner[1].value)>>
            /\ (~InvokeStep /\ ~FastStep) => owner'[1].value = owner[1].value]_vars

\* The helper has registered the callable and a slow call has changed the
\* owner's state.
C17_Witness ==
    HasState /\ callable.kind = "template" /\ callable.data = "external"
        /\ CallOver /\ invoked = 1 /\ owner[1].value # entry

\* The same after a fast call.
C17_WitnessFast ==
    HasState /\ callable.kind = "template" /\ callable.data = "external"
        /\ pc = "idle" /\ delivered # <<>> /\ delivered[1].path = "fast"
        /\ owner[1].value = MaxCounter

(***************************************************************************)
(* Properties of the classifier (SpecTypes).                               *)
(***************************************************************************)
\* The primitive a type names: written bare or through std::primitive.
PrimitiveOf(ty) ==
    IF ty.k = "path" /\ ty.args = <<>>
        /\ (Len(ty.segs) = 1 \/ SubSeq(ty.segs, 1, Len(ty.segs) - 1) = <<"std", "primitive">>)
    THEN <<Last(ty.segs)>> ELSE <<>>

\* The primitives the Fast API carries and the class of each.
ClassOfPrimitive ==
    [bool |-> "Bool", i32 |-> "I32", u32 |-> "U32", i64 |-> "I64", u64 |-> "U64",
     f32 |-> "F32", f64 |-> "F64"]

\* <<class>> for a fast-eligible type, <<>> for any other.
ExpectedClass(ty) ==
    IF ty = UnitType THEN <<"Void">>
    ELSE IF PrimitiveOf(ty) # <<>> /\ PrimitiveOf(ty)[1] \in DOMAIN ClassOfPrimitive
    THEN <<ClassOfPrimitive[PrimitiveOf(ty)[1]]>>
    ELSE <<>>

\* C19: the classifier accepts a type exactly when it is bool, i32, u32, i64,
\* u64, f32, f64 or unit, with the class of that primitive, and an absent
\* return type is void; every other type is refused.
C19_ClassifierExact ==
    Expanded =>
        /\ TheBundle.all_fast_compatible
             <=> \A i \in 1..Len(TheParams) : ExpectedClass(TheParams[i].ty) # <<>>
        /\ TheBundle.all_fast_compatible =>
             TheBundle.fast_param_types
                 = [i \in 1..Len(TheParams) |-> ExpectedClass(TheParams[i].ty)[1]]
        /\ TheBundle.fast_return_type
             = (IF sig.output = <<>> THEN <<"Void">> ELSE ExpectedClass(sig.output[1]))

C19_Witness ==
    Expanded /\ Len(TheParams) = 1 /\ TheParams[1].ty = Simple("u64")
        /\ sig.output = <<Simple("f32")>>
        /\ TheBundle.fast_param_types = <<"U64">>
        /\ TheBundle.fast_return_type = <<"F32">>

C19_WitnessRefused ==
    Expanded /\ Len(TheParams) = 1 /\ TheParams[1].ty = Simple("usize")
        /\ sig.output = <<OptionOf(Simple("f64"))>>
        /\ ~TheBundle.all_fast_compatible /\ TheBundle.fast_return_type = <<>>

C19_WitnessNoReturn ==
    Expanded /\ sig.output = <<>> /\ TheBundle.fast_return_type = <<"Void">>

(***************************************************************************)
(* The ABI descriptor: the fast-path generator on signatures over every    *)
(* primitive the Fast API carries, with and without state (SpecAbi).       *)
(***************************************************************************)
AbiSignatures ==
    {Signature(inputs, output,
               Attrs(IF has_state_of(inputs) THEN <<CounterRc>> ELSE <<>>, FALSE, TRUE)) :
        inputs \in InputsLeading(FastPrimitives \ {UnitType}, {FALSE}, BOOLEAN),
        output \in {<<>>} \cup {<<t>> : t \in FastPrimitives}}

InitAbi ==
    /\ sig \in AbiSignatures
    /\ attr = AttrsGiven
    /\ slot = <<>>
    /\ owner = <<>>
    /\ Fresh

NextAbi == GenerateFastApi

SpecAbi == InitAbi /\ [][NextAbi]_vars

\* The engine's name of each primitive in a descriptor.
NativeOfPrimitive ==
    [bool |-> "Bool", i32 |-> "Int32", u32 |-> "Uint32", i64 |-> "Int64",
     u64 |-> "Uint64", f32 |-> "Float32", f64 |-> "Float64"]

NativeType(ty) ==
    IF ty = UnitType THEN "Void" ELSE NativeOfPrimitive[PrimitiveOf(ty)[1]]

\* C18: the descriptor of a fast pair lists the receiver, then the native
\* type of each parameter in declared order, then the call options exactly
\* when the function takes state; its return type is the native type of the
\* declared return, void when none is declared.
C18_DescriptorLayout ==
    (Expanded /\ FastPairEmitted(TheBundle)) =>
        LET info == TheBundle.cfunction_info[1]
        IN  /\ info.args
                 = <<"V8Value">>
                   \o [i \in 1..Len(TheParams) |-> NativeType(TheParams[i].ty)]
                   \o (IF HasState THEN <<"CallbackOptions">> ELSE <<>>)
            /\ info.ret
                 = (IF sig.output = <<>> THEN "Void" ELSE NativeType(sig.output[1]))

C18_Witness ==
    /\ Expanded /\ FastPairEmitted(TheBundle) /\ HasState
    /\ Len(TheParams) = 2
    /\ TheParams[1].ty = Simple("u32") /\ TheParams[2].ty = Simple("i64")
    /\ sig.output = <<Simple("u64")>>
    /\ TheBundle.cfunction_info[1].args
           = <<"V8Value", "Uint32", "Int64", "CallbackOptions">>
    /\ TheBundle.cfunction_info[1].ret = "Uint64"

C18_WitnessPure ==
    /\ Expanded /\ FastPairEmitted(TheBundle) /\ ~HasState
    /\ Len(TheParams) = 2 /\ sig.output = <<>>
    /\ TheBundle.cfunction_info[1].args = <<"V8Value", "Float64", "Bool">>
    /\ TheBundle.cfunction_info[1].ret = "Void"

(***************************************************************************)
(* The fallback of the fast-path generator (SpecGen).                      *)
(***************************************************************************)
\* The first gate the signature fails, in the order the generator checks.
FailedGate ==
    IF \E i \in 1..Len(TheParams) : TheParams[i].ty \notin FastPrimitives
    THEN "parameters"
    ELSE IF sig.output # <<>> /\ sig.output[1] \notin FastPrimitives THEN "return"
    ELSE IF HasScope THEN "scope"
    ELSE "none"

\* C20: with the fast path requested and a gate failing, the emitted bundle
\* tells which gate failed first: what is emitted for a signature rejected
\* for a non-primitive type is not what the scope fallback emits, and the
\* other way round.
C20_DiagnosticNamesGate ==
    (Expanded /\ sig.attrs.fast /\ ~StateTypeMissing) =>
        LET w == TheBundle.wrapper[1]
        IN  /\ FailedGate \in {"parameters", "return"} =>
                 TheBundle # fallback_uses_scope(w.state_extraction, w.arg_extractions,
                                                 w.call_and_return)
            /\ FailedGate = "scope" =>
                 TheBundle # fallback_non_primitive(w.state_extraction,
                                                    w.arg_extractions, w.call_and_return)

(***************************************************************************)
(* Call outcomes of the slow wrapper (Spec).                               *)
(***************************************************************************)
\* The wrapped function returned a value (not a failure) that serde_v8 cannot
\* convert.
Unconvertible == result.tag \in {"value", "ok"} /\ ~result.repr

\* C21: outside promise mode, a call whose function produced a value that
\* cannot be converted throws nothing and leaves the return sink unset; the
\* function has been invoked exactly once.
C21_ConversionFailureSilent ==
    (CallOver /\ ~PromiseMode /\ Unconvertible) =>
        /\ thrown = <<>>
        /\ rv = <<>>
        /\ invoked = 1
        /\ deferred.state = "none"
        /\ slow_observation.exc = <<>> /\ slow_observation.value = Undefined

C21_Witness ==
    /\ CallOver /\ ~PromiseMode /\ ~Fallible /\ Unconvertible
    /\ sig.output = <<Simple("Blob")>> /\ invoked = 1
    /\ rv = <<>> /\ thrown = <<>>

(***************************************************************************)
(* What gets a direct-call function (SpecGen).                             *)
(***************************************************************************)
\* A type whose values need the boundary's checks or conversions: Result,
\* Option, an engine handle, or any type that is not a Fast API primitive.
NeedsBoundary(ty) == ty \notin FastPrimitives

\* The Rust spelling of a Fast API primitive.
RustPrimitive(ty) == IF ty = UnitType THEN "()" ELSE PrimitiveOf(ty)[1]

\* C22: a function with a Result return, with an Option, handle or opaque
\* parameter or return, or with a scope parameter never gets a direct-call
\* function; every direct-call function emitted takes primitives only, does
\* nothing but call the original function once on them (after the state, if
\* any) and returns its primitive result: it has no error exit.
C22_FastOnlyForPrimitives ==
    (Expanded /\ Len(TheBundle.fast_fn) = 1) =>
        LET f == TheBundle.fast_fn[1]
        IN  /\ \A i \in 1..Len(TheParams) : ~NeedsBoundary(TheParams[i].ty)
            /\ sig.output # <<>> => ~NeedsBoundary(sig.output[1])
            /\ ~Fallible
            /\ ~HasScope
            /\ Len(f.params) = Len(TheParams) + 2
            /\ \A i \in 1..Len(TheParams) :
                   f.params[i + 1] = [name |-> TheParams[i].name,
                                      ty |-> RustPrimitive(TheParams[i].ty)]
            /\ f.call_args
                 = (IF HasState THEN <<"&state">> ELSE <<>>)
                   \o [i \in 1..Len(TheParams) |-> TheParams[i].name]
            /\ f.ret = (IF sig.output = <<>> THEN "()" ELSE RustPrimitive(sig.output[1]))

C22_Witness ==
    /\ Expanded /\ Len(TheBundle.fast_fn) = 1 /\ HasState
    /\ Len(TheParams) = 2 /\ TheParams[1].ty = Simple("f64")
    /\ TheParams[2].ty = Simple("bool") /\ sig.output = <<Simple("f64")>>
    /\ TheBundle.fast_fn[1].call_args = <<"&state", "a", "b">>
    /\ SpecialsLead(sig.inputs) /\ ~has_compile_error(TheBundle)

\* Fast requested for a function that takes an Option and returns a Result:
\* no direct-call function.
C22_WitnessRefused ==
    /\ Expanded /\ sig.attrs.fast /\ Fallible
    /\ Len(TheParams) = 1 /\ TheParams[1].ty = OptionOf(Simple("f64"))
    /\ TheBundle.fast_fn = <<>>
    /\ SpecialsLead(sig.inputs) /\ ~has_compile_error(TheBundle)

\* The function is declared without a return type and without promise mode.
PlainVoid == ~PromiseMode /\ sig.output = <<>>

\* C23: for a function without return value outside promise mode, no step of
\* any call writes the return sink or creates a deferred, and a call whose
\* state and arguments were all extracted ends with the function invoked
\* exactly once, nothing thrown and the script observing undefined.
C23_NoValueLeavesSink ==
    PlainVoid =>
        /\ rv = <<>>
        /\ deferred = NoDeferred
        /\ (CallOver /\ Extractable) =>
             /\ invoked = 1
             /\ thrown = <<>>
             /\ slow_observation = Observation("slow", <<>>, Undefined, NoDeferred)
        /\ delivered # <<>> => delivered[1].value = Undefined

C23_Witness ==
    /\ PlainVoid /\ CallOver /\ Extractable
    /\ Len(TheParams) = 2 /\ Len(args) = 2
    /\ invoked = 1 /\ rv = <<>> /\ thrown = <<>>

\* The script has observed the outcome.
C23_WitnessObserved ==
    /\ PlainVoid /\ pc = "idle" /\ delivered # <<>>
    /\ delivered[1].exc = <<>> /\ delivered[1].value = Undefined

(***************************************************************************)
(* Argument indices (SpecGen, the macro of src/).                          *)
(***************************************************************************)
\* A declared parameter that is neither the scope nor the state.
IsOrdinary(p) == p.name \notin {"scope", "_scope", "state"}

Ordinary == SelectSeq(sig.inputs, IsOrdinary)

\* The extractions are the ordinary parameters in declaration order, the
\* i-th (from 0) reading argument index i and naming i in its message.
IndicesFollowDeclaration ==
    LET x == TheBundle.wrapper[1].arg_extractions
    IN  /\ Len(x) = Len(Ordinary)
        /\ \A i \in 1..Len(x) :
             /\ x[i].name = Ordinary[i].name
             /\ x[i].idx = i - 1
             /\ x[i].msg # <<>> => SubSeq(x[i].msg, 1, 2) = <<"argument ", IdxStr(i - 1)>>
        /\ \A i, j \in 1..Len(x) : x[i].idx = x[j].idx => i = j

\* C24: the i-th declared parameter that is neither scope nor state (from
\* 0) is read from argument index i, wherever the scope and the state are
\* declared; no two parameters read one index; every message an extraction
\* can throw carries the index of its own parameter.
C24_PositionIsIndex ==
    (Expanded /\ ~sig.attrs.fast) => IndicesFollowDeclaration

\* The declaration of the tests: scope and state lead two ordinary
\* parameters, and the fourth declared parameter reads index 1.
C24_Witness ==
    /\ Expanded /\ ~sig.attrs.fast /\ wrapper_emitted(TheBundle)
    /\ Len(sig.inputs) = 4 /\ Len(Ordinary) = 2
    /\ is_scope_name(sig.inputs[1].name) /\ is_state_name(sig.inputs[2].name)
    /\ TheBundle.wrapper[1].arg_extractions[2].idx = 1
    /\ TheBundle.wrapper[1].arg_extractions[2].name = sig.inputs[4].name

\* The scope is declared between two parameters and the state after them:
\* the third declared parameter still reads index 1.
C24_WitnessMisordered ==
    /\ Expanded /\ ~sig.attrs.fast /\ wrapper_emitted(TheBundle)
    /\ Len(sig.inputs) = 4 /\ Len(Ordinary) = 2
    /\ is_scope_name(sig.inputs[2].name) /\ is_state_name(sig.inputs[4].name)
    /\ TheBundle.wrapper[1].arg_extractions[2].idx = 1
    /\ TheBundle.wrapper[1].arg_extractions[2].name = sig.inputs[3].name

(***************************************************************************)
(* The capsule wrapper without a capsule (SpecFast).                       *)
(***************************************************************************)
\* The slow wrapper of a capsule-state function runs in a callable that was
\* registered without data.
CapsuleAbsent ==
    /\ InCall /\ HasState
    /\ TheWrapper.state_extraction.form = "data"
    /\ callable.data \in {"undefined", "null"}

\* C25: the slow wrapper of a capsule-state function, called through a
\* callable whose data is undefined or null, throws the generic error "internal
\* error: state data not set for <type>" before any argument is examined; it
\* does not invoke the function, does not touch the state behind any pointer
\* and leaves the return sink unset.
C25_CapsuleAbsentError ==
    CapsuleAbsent =>
        /\ pc \in {"state", "done"}
        /\ bound = <<>>
        /\ invoked = 0
        /\ rv = <<>>
        /\ deferred.state = "none"
        /\ ~held /\ owner = <<StateObject(1)>>
        /\ pc = "done" =>
             thrown = <<Exc("Error", <<"internal error: state data not set for ">>
                                     \o TypeStr(sig.attrs.state_type[1]))>>

\* The error with arguments the wrapper would have refused.
C25_Witness ==
    /\ CapsuleAbsent /\ pc = "done" /\ Len(TheParams) = 2 /\ Len(args) = 2
    /\ args[1].t = "String"
    /\ Len(thrown) = 1 /\ thrown[1].kind = "Error" /\ invoked = 0 /\ rv = <<>>

\* The error through a callable whose data is null.
C25_WitnessNull ==
    /\ CapsuleAbsent /\ pc = "done" /\ callable.data = "null"
    /\ Len(TheParams) = 1 /\ Len(args) = 1
    /\ Len(thrown) = 1 /\ thrown[1].kind = "Error" /\ invoked = 0 /\ rv = <<>>

\* The same in promise mode with arguments of the declared types.
C25_WitnessPromise ==
    /\ CapsuleAbsent /\ pc = "done" /\ PromiseMode
    /\ Len(TheParams) = 1 /\ TheParams[1].ty = Simple("f64")
    /\ Len(args) = 1 /\ args[1].t = "Number"
    /\ Len(thrown) = 1 /\ rv = <<>>

(***************************************************************************)
(* Exceptions and the return sink (Spec).                                  *)
(***************************************************************************)
\* C26: in every call of a slow wrapper, whatever its shape and whatever
\* fails, at most one exception is thrown and no call both throws and writes
\* the return sink: at its end a call has thrown with the sink unset, or set
\* the sink without throwing, or left the sink at its default without
\* throwing.
C26_ThrowOrSink ==
    /\ Len(thrown) <= 1
    /\ Len(rv) <= 1
    /\ ~(thrown # <<>> /\ rv # <<>>)
    /\ delivered # <<>> =>
         /\ Len(delivered[1].exc) <= 1
         /\ delivered[1].exc # <<>> => delivered[1].value = Undefined

\* The three endings.
C26_Witness ==
    CallOver /\ Shape = "result" /\ invoked = 1 /\ Len(thrown) = 1 /\ rv = <<>>

C26_WitnessSinkSet ==
    CallOver /\ Shape = "promise_result" /\ AppFailed /\ thrown = <<>> /\ rv = <<ThePromise>>

C26_WitnessDefault ==
    CallOver /\ Shape = "value" /\ invoked = 1 /\ thrown = <<>> /\ rv = <<>>

----------------------------------------------------------------------------
\* One invocation per call, and every call ends (SpecRun)

\* Functions of the shape of the tests' call_twice: they take the scope and
\* callbacks, and the script they run may call the wrapper again.
ReentrantParamTypes == {LocalOf("Function"), OptionOf(Simple("String"))}

ReentrantValues == {Js("String", 1), Js("Function", 2)}

ReentrantSignatures ==
    {Signature(inputs, output,
               Attrs(IF has_state_of(inputs) THEN <<CounterRc>> ELSE <<>>, pr, FALSE)) :
        inputs \in InputsLeading(ReentrantParamTypes, {TRUE}, BOOLEAN),
        output \in RunOutputs, pr \in BOOLEAN}

InitRun ==
    /\ sig \in ReentrantSignatures
    /\ attr = AttrsGiven
    /\ slot \in (IF HasState THEN {<<>>, <<StateObject(1)>>} ELSE {<<>>})
    /\ owner = <<>>
    /\ Fresh

NextRun ==
    \/ Generate
    \/ Register
    \/ \E a \in ArgLists(ReentrantValues, Len(TheParams)) : Call(a)
    \/ ExtractState
    \/ ExtractArg
    \/ CreateResolver
    \/ SetPromise
    \/ Invoke
    \/ \E a \in ArgLists(ReentrantValues, Len(TheParams)) : Reenter(a)
    \/ Complete
    \/ Finish
    \/ Return

\* The steps of a call in progress.  The wrapper is straight-line code on
\* one thread: once entered, its next statement runs.
WrapperStep ==
    \/ ExtractState
    \/ ExtractArg
    \/ CreateResolver
    \/ SetPromise
    \/ Invoke
    \/ Complete
    \/ Finish
    \/ Return

\* The wrapped function returns: at every depth of nesting, a function that
\* is running again and again does return, however often its script called
\* the wrapper in between.
FunctionReturns == \A d \in 0..MaxDepth : SF_vars(Complete /\ Len(stack) = d)

SpecRun == InitRun /\ [][NextRun]_vars /\ WF_vars(WrapperStep) /\ FunctionReturns

InvokedAsExtracted ==
    /\ invoked <= 1
    /\ CallOver => (invoked = 1 <=> Extractable)
    /\ (InCall /\ invoked = 1) => Extractable

\* C27: in every call of a slow wrapper the wrapped function is invoked at
\* most once, and exactly once precisely when the state extraction (when the
\* wrapper has one) and every argument extraction succeeded; and every call,
\* given that the wrapped function returns, reaches its end.
C27_InvokedOnceAndEnds == [](InvokedAsExtracted) /\ (InCall ~> pc = "idle")

C27_Witness == CallOver /\ invoked = 1 /\ Extractable /\ Len(bound) >= 1 /\ HasState
C27_WitnessNotInvoked == CallOver /\ invoked = 0 /\ ~Extractable /\ ArgFailed

\* An inner call, made by script the outer call's function ran, is over.
C27_WitnessReentered == CallOver /\ stack # <<>> /\ invoked = 1 /\ stack[1].invoked = 1

----------------------------------------------------------------------------
\* The owner's count across calls (SpecFast)

\* C28: with the owner of the state kept alive, over any sequence of slow
\* and direct calls, failing ones included, the owner's strong count never
\* drops below its value at registration while a call is in progress, and is
\* that value whenever no call is in progress.
C28_OwnerCountKept ==
    owner # <<>> =>
        /\ owner[1].strong >= StateObject(1).strong
        /\ ~InCall => owner[1].strong = StateObject(1).strong

\* A slow call that refused an argument has returned.
C28_Witness ==
    /\ owner # <<>> /\ pc = "idle"
    /\ delivered # <<>> /\ delivered[1].path = "slow" /\ delivered[1].exc # <<>>
    /\ owner[1].strong = StateObject(1).strong

\* A slow call is ending on a refused argument while it holds its clone.
C28_WitnessDuringCall ==
    /\ owner # <<>> /\ CallOver /\ held /\ thrown # <<>> /\ invoked = 0
    /\ owner[1].strong > StateObject(1).strong

----------------------------------------------------------------------------
\* The direct-call function against its descriptor (SpecAbi)

\* The descriptor slot that a parameter of the direct-call function, of the
\* given Rust type, occupies.
SlotOfRustType(ty) ==
    CASE ty = "v8::Local<v8::Value>" -> "V8Value"
      [] ty = "*mut FastApiCallbackOptions" -> "CallbackOptions"
      [] ty = "bool" -> "Bool"
      [] ty = "i32" -> "Int32"
      [] ty = "u32" -> "Uint32"
      [] ty = "i64" -> "Int64"
      [] ty = "u64" -> "Uint64"
      [] ty = "f32" -> "Float32"
      [] ty = "f64" -> "Float64"
      [] OTHER -> "none"

\* C29: for every emitted fast pair, with or without state, the direct-call
\* function has exactly one parameter per slot of its descriptor's argument
\* list, in the same order and of the matching type: the receiver, each
\* primitive parameter, and the call options exactly when the function
\* takes a call-options parameter.
C29_ParamsMatchDescriptor ==
    (Expanded /\ FastPairEmitted(TheBundle)) =>
        LET f == TheBundle.fast_fn[1]
            info == TheBundle.cfunction_info[1]
        IN  /\ Len(f.params) = Len(info.args)
            /\ \A i \in 1..Len(f.params) :
                   i <= Len(info.args) /\ SlotOfRustType(f.params[i].ty) = info.args[i]

\* The pair with state: parameters and slots agree.
C29_StatePairAgrees ==
    (Expanded /\ FastPairEmitted(TheBundle) /\ HasState) =>
        LET f == TheBundle.fast_fn[1]
            info == TheBundle.cfunction_info[1]
        IN  /\ Len(f.params) = Len(info.args)
            /\ \A i \in 1..Len(f.params) :
                   i <= Len(info.args) /\ SlotOfRustType(f.params[i].ty) = info.args[i]

----------------------------------------------------------------------------
\* Arguments in index order, up to the first refusal (Spec)

\* A step of the argument extractions.
ArgStep == pc = "arg" /\ <<pc, bound, thrown>>' # <<pc, bound, thrown>>

\* The error names the argument index idx (counted from 0).
NamesIndex(exc, idx) ==
    exc.kind = "TypeError" /\ Len(exc.msg) >= 2 /\ exc.msg[1] = "argument " /\ exc.msg[2] = IdxStr(idx)

\* The step examines the argument after those already bound: it either binds
\* it, leaving nothing thrown, or throws one error naming it and ends the call.
ArgStepInOrder ==
    ArgStep =>
        LET i == Len(bound) + 1
        IN  /\ \A j \in 1..(i - 1) : Acceptable(j)
            /\ \/ /\ Acceptable(i)
                  /\ Len(bound') = i /\ SubSeq(bound', 1, i - 1) = bound
                  /\ thrown' = thrown
               \/ /\ ~Acceptable(i)
                  /\ bound' = bound
                  /\ Len(thrown') = 1 /\ NamesIndex(thrown'[1], i - 1)
                  /\ pc' = "done"

\* A call that refused an argument ends with every lower argument bound, no
\* higher one, and one error naming the lowest refused index.
FirstFailureStops ==
    (CallOver /\ ArgFailed) =>
        /\ Len(bound) = FirstBad - 1
        /\ Len(thrown) = 1 /\ NamesIndex(thrown[1], FirstBad - 1)
        /\ invoked = 0

\* C30: the slow wrapper examines its arguments in increasing index order
\* and stops at the first refusal: the single error names the lowest refused
\* index and no argument of a higher index is read or converted.
C30_InOrderFirstFailure == [](FirstFailureStops) /\ [][ArgStepInOrder]_vars

\* Both arguments are invalid and the error names the first.
C30_Witness ==
    /\ CallOver /\ Len(TheParams) = 2 /\ FirstBad = 1 /\ ~Acceptable(2) /\ ~StateAbsent
    /\ bound = <<>> /\ Len(thrown) = 1 /\ NamesIndex(thrown[1], 0)

\* The first argument was bound and the second refused.
C30_WitnessSecond ==
    /\ CallOver /\ Len(TheParams) = 2 /\ FirstBad = 2 /\ ~StateAbsent
    /\ Len(bound) = 1 /\ Len(thrown) = 1 /\ NamesIndex(thrown[1], 1)

====
